---- MODULE Spec2Model ----
(***************************************************************************)
(* A model of ProcessService (src/app/services/process_service.py): the    *)
(* image-segmentation engine.  One call of the service is one run of the   *)
(* state machine from pc = "idle" to pc = "done" (an image is returned) or *)
(* pc = "raised" (an exception leaves the call).                           *)
(*                                                                         *)
(* Numbers.  Pixels are integers 0..255.  Every float the code computes    *)
(* (means, thresholds, centroids) is modelled by the exact rational        *)
(* [n |-> numerator, d |-> denominator], d > 0, in lowest terms.           *)
(***************************************************************************)
EXTENDS Integers, Sequences, FiniteSets, TLC

\* ------------------------------------------------------------ bounds
\* The generated input images have at most MaxPixels samples (h*w) and sides
\* of at most MaxSide.
MaxPixels == 4

MaxSide == 3

\* ------------------------------------------------------------ arithmetic
Abs(x) == IF x < 0 THEN -x ELSE x

Max2(a, b) == IF a >= b THEN a ELSE b

Min2(a, b) == IF a <= b THEN a ELSE b

RECURSIVE GCD(_, _)
GCD(a, b) == IF b = 0 THEN a ELSE GCD(b, a % b)

\* The rational n/d (d # 0) in lowest terms with a positive denominator.
Rat(n, d) ==
    LET s == IF d < 0 THEN -1 ELSE 1
        g == GCD(Abs(n), Abs(d))
    IN  [n |-> (s * n) \div g, d |-> (s * d) \div g]

RInt(i) == [n |-> i, d |-> 1]

RAdd(x, y) == Rat(x.n * y.d + y.n * x.d, x.d * y.d)

RSub(x, y) == Rat(x.n * y.d - y.n * x.d, x.d * y.d)

RMul(x, y) == Rat(x.n * y.n, x.d * y.d)

RHalf(x) == Rat(x.n, 2 * x.d)

RAbs(x) == [n |-> Abs(x.n), d |-> x.d]

RLess(x, y) == x.n * y.d < y.n * x.d

RLeq(x, y) == x.n * y.d <= y.n * x.d

\* a/b < c/d for a, c >= 0 and b, d > 0, by Euclid's algorithm: no product
\* is formed, so the comparison is exact for numbers near the integer width.
RECURSIVE FracLess(_, _, _, _)
FracLess(a, b, c, d) ==
    LET qa == a \div b
        qc == c \div d
        ra == a % b
        rc == c % d
    IN  IF qa # qc THEN qa < qc
        ELSE IF rc = 0 THEN FALSE
        ELSE IF ra = 0 THEN TRUE
        ELSE FracLess(d, rc, b, ra)

\* Round half to even of n/d, d > 0: Python's round() and numpy's rint().
RoundHalfEven(n, d) ==
    LET q == n \div d
        r == n % d
    IN  IF 2 * r < d THEN q
        ELSE IF 2 * r > d THEN q + 1
        ELSE IF q % 2 = 0 THEN q ELSE q + 1

\* Truncation toward zero of n/d, d > 0: numpy's astype(uint8) on a float
\* in [0, 256).
TruncToward0(n, d) == IF n >= 0 THEN n \div d ELSE -((-n) \div d)

\* e, with x evaluated first (TLC evaluates an operator's arguments only
\* when they are used; a long scan must not pile them up).
Strict(x, e) == IF x = x THEN e ELSE e

RECURSIVE SumSeq(_)
SumSeq(s) == IF s = <<>> THEN 0 ELSE Head(s) + SumSeq(Tail(s))

\* The sum of s[lo..hi], by halves, so that a long array is summed in a
\* shallow evaluation.
RECURSIVE SumRange(_, _, _)
SumRange(s, lo, hi) ==
    IF lo > hi THEN 0
    ELSE IF lo = hi THEN s[lo]
    ELSE LET mid == (lo + hi) \div 2
         IN  SumRange(s, lo, mid) + SumRange(s, mid + 1, hi)

\* The subsequence of s (a sequence of integers) whose elements satisfy
\* "<= t" (gt = FALSE) or "> t" (gt = TRUE), t a rational: arr[arr <= T].
RECURSIVE SelectRange(_, _, _, _, _)
SelectRange(s, t, gt, lo, hi) ==
    IF lo > hi THEN <<>>
    ELSE IF lo = hi
    THEN IF RLess(t, RInt(s[lo])) = gt THEN <<s[lo]>> ELSE <<>>
    ELSE LET mid == (lo + hi) \div 2
         IN  SelectRange(s, t, gt, lo, mid) \o SelectRange(s, t, gt, mid + 1, hi)

SelectCmp(s, t, gt) ==
    CHOOSE sel \in {SelectRange(v, w, gt, 1, Len(v)) : v \in {s}, w \in {t}} : TRUE

\* The float32 value of a sum of float32 integers whose exact value is total,
\* 0 <= total < 2^25: below 2^24 every integer is a float32 and the sum is
\* exact; from 2^24 on only the even integers are, and the addition that
\* reaches total rounds it to the nearest of them, a tie going to the one
\* with the even significand.  (The operands of that addition are exact
\* whenever every sum of fewer elements is itself a float32.)
float32_sum(total) ==
    IF total < 16777216 \/ total % 2 = 0 THEN total
    ELSE IF total % 4 = 1 THEN total - 1 ELSE total + 1

\* arr.mean() of a non-empty float32 array of integers: numpy adds the
\* elements in float32 and divides the sum by their number.
Mean(s) ==
    CHOOSE m \in {Rat(float32_sum(SumRange(v, 1, Len(v))), Len(v)) : v \in {s}} : TRUE

\* ------------------------------------------------------------ images
\* A PIL image: its mode ("L" or "RGBA"), its size and one plane of h*w
\* samples (row-major) per band.
Levels == {0, 20, 200, 255}

Colors == {<<255, 0, 0, 255>>, <<0, 0, 255, 128>>, <<20, 20, 20, 0>>}

Shapes == {hw \in (1..MaxSide) \X (1..MaxSide) : hw[1] * hw[2] <= MaxPixels}

LImage(h, w, plane) == [mode |-> "L", h |-> h, w |-> w, bands |-> <<plane>>]

LImages ==
    UNION {{LImage(hw[1], hw[2], s) : s \in [1..(hw[1] * hw[2]) -> Levels]} : hw \in Shapes}

RGBAImage(h, w, cs) ==
    [mode |-> "RGBA", h |-> h, w |-> w,
     bands |-> <<[i \in 1..Len(cs) |-> cs[i][1]], [i \in 1..Len(cs) |-> cs[i][2]],
                 [i \in 1..Len(cs) |-> cs[i][3]], [i \in 1..Len(cs) |-> cs[i][4]]>>]

RGBAImages ==
    {RGBAImage(1, 1, <<c>>) : c \in Colors}
        \cup {RGBAImage(1, 2, <<c1, c2>>) : c1 \in Colors, c2 \in Colors}

\* The fields the specification's scenarios name.
Checkerboard ==
    LImage(4, 4, [i \in 1..16 |-> IF (((i - 1) \div 4) + ((i - 1) % 4)) % 2 = 0 THEN 0 ELSE 255])

Bimodal == {LImage(1, 2, <<10, 240>>), LImage(2, 2, <<240, 10, 10, 240>>),
            LImage(2, 2, <<10, 10, 240, 240>>)}

\* Three equally spaced levels: the split below 66 and the split below 112
\* have the same between-class variance.
Symmetric == LImage(1, 3, <<20, 66, 112>>)

Images == LImages \cup RGBAImages \cup Bimodal \cup {Checkerboard, Symmetric}

NoImage == [mode |-> "none", h |-> 0, w |-> 0, bands |-> <<>>]

\* ------------------------------------------------------------ helpers
\* Image.convert("L") of one RGB sample (ITU-R 601-2 luma, integer form).
Luma(r, g, b) == (r * 19595 + g * 38470 + b * 7471 + 32768) \div 65536

\* to_grayscale: a copy of an "L" image, else its conversion to "L".
to_grayscale(image) ==
    IF image.mode = "L" THEN LImage(image.h, image.w, image.bands[1])
    ELSE LImage(image.h, image.w,
                [i \in 1..(image.h * image.w) |->
                    Luma(image.bands[1][i], image.bands[2][i], image.bands[3][i])])

\* _image_to_gray_np: the float32 array of the grayscale image, flattened.
image_to_gray_np(image) == to_grayscale(image).bands[1]

\* A wrong mask writer: foreground stored as 1.
apply_binary_mask_One(h, w, mask_bool) ==
    LImage(h, w, [i \in 1..Len(mask_bool) |-> IF mask_bool[i] THEN 1 ELSE 0])

\* _apply_binary_mask: np.where(mask, 255, 0) as an "L" image of the mask's shape.
apply_binary_mask(h, w, mask_bool) ==
    LImage(h, w, [i \in 1..Len(mask_bool) |-> IF mask_bool[i] THEN 255 ELSE 0])

\* np.clip(np.rint(arr), 0, 255).astype(np.uint8) of an integer-valued array.
to_u8(arr) == [i \in 1..Len(arr) |-> Min2(255, Max2(0, arr[i]))]

\* np.bincount(arr_u8, minlength=256)
bincount(arr_u8) ==
    [v \in 0..255 |-> Cardinality({i \in 1..Len(arr_u8) : arr_u8[i] = v})]

\* ------------------------------------------------------------ state
VARIABLES
    pc,         \* "idle", inside a loop ("iter_loop", "kmeans_loop"), past it
                \* ("iter_exit", "kmeans_exit"), "done" or "raised"
    op,         \* the ProcessService method being run, "none" when idle
    image,      \* the caller's image: the argument of every call
    args,       \* the arguments of the call
    field,      \* the array the call works on: the argument of _otsu_threshold,
                \* the local statistic S of adaptive_threshold
    thr,        \* the local T (or t) of the method: the cut value chosen
    centroids,  \* kmeans_segment's centroids, a sequence of rationals
    iters,      \* loop iterations started by the running call
    result,     \* the image returned, NoImage before the call returns
    fp,         \* how this build's floating-point roundings fall where the
                \* real-number model has a tie (fixed for the whole behaviour)
    seen,       \* history: the first call that ended, once it is recorded
    processing_mode,  \* AppController._processing_mode
    viewer,     \* the ImageViewer's fields
    bottom,     \* the BottomBar's zoom widgets
    last_key    \* history: the last event of the space key, "none" before any

vars == <<pc, op, image, args, field, thr, centroids, iters, result, fp, seen,
          processing_mode, viewer, bottom, last_key>>

\* What the calls of ProcessService leave alone.
widgets == <<processing_mode, viewer, bottom, last_key>>

NoArgs ==
    [p |-> RInt(0), tol |-> RInt(0), max_iter |-> 0, k |-> 0,
     C |-> RInt(0), T |-> RInt(0), stat |-> "", polarity |-> "", values |-> <<>>]

\* ------------------------------------------------------------ Otsu
\* sigma_b2[t] as the fraction a/b.  With W = total*omega[t], M = total*mu[t]
\* and MT = total*mu_t the code's numerator/denominator is
\* (MT*W - M*total)^2 / (total^2 * W * (total - W)); the factor total^2, the
\* same at every t, is left out.  np.where(denominator > 0, ..., 0.0).
otsu_sigma_b2(total, MT, W, M) ==
    IF W * (total - W) > 0
    THEN [a |-> (MT * W - M * total) * (MT * W - M * total), b |-> W * (total - W)]
    ELSE [a |-> 0, b |-> 1]

\* The comparison np.argmax makes between the variance sig of level t, whose
\* cumulative count is W, and the best variance so far (st.sig, found at a
\* level of cumulative count st.bw): the first maximum is kept, so t replaces
\* the best level only when its float64 variance is strictly larger.  Two
\* levels with the same cumulative sums have bit-identical variances.  Two
\* levels whose variances are equal as real numbers but come from different
\* cumulative sums are computed by different float64 roundings and may
\* compare either way: roundUp says whether the later one comes out larger.
\* (A variance of 0 is the exact 0.0 np.where stores, never a rounded value.)
otsu_better(sig, W, st, roundUp) ==
    \/ FracLess(st.sig.a, st.sig.b, sig.a, sig.b)
    \/ /\ roundUp
       /\ sig.a > 0
       /\ ~FracLess(sig.a, sig.b, st.sig.a, st.sig.b)
       /\ W # st.bw

\* np.argmax(sigma_b2) over the levels lo..hi in ascending order.  st carries
\* the cumulative sums W (omega) and M (mu) up to lo-1 and the best level t
\* so far with its variance sig and cumulative count bw.  The range is halved
\* so that the evaluation stays shallow; the levels are visited in ascending
\* order.
RECURSIVE otsu_scan(_, _, _, _, _, _, _)
otsu_scan(hist, total, MT, lo, hi, st, roundUp) ==
    IF lo = hi
    THEN LET W   == st.W + hist[lo]
             M   == st.M + lo * hist[lo]
             sig == otsu_sigma_b2(total, MT, W, M)
         IN  IF lo = 0 \/ otsu_better(sig, W, st, roundUp)
             THEN [t |-> lo, sig |-> sig, bw |-> W, W |-> W, M |-> M]
             ELSE [st EXCEPT !.W = W, !.M = M]
    ELSE LET mid  == (lo + hi) \div 2
             left == otsu_scan(hist, total, MT, lo, mid, st, roundUp)
         IN  Strict(left, otsu_scan(hist, total, MT, mid + 1, hi, left, roundUp))

\* _otsu_threshold of an array already rounded and clipped to uint8: the
\* threshold as an integer level.
otsu_threshold(arr_u8, roundUp) ==
    LET total == Len(arr_u8)
    IN  IF total = 0 THEN 0
        ELSE otsu_scan(bincount(arr_u8), total, SumSeq(arr_u8), 0, 255,
                       [t |-> 0, sig |-> [a |-> 0, b |-> 1], bw |-> 0, W |-> 0, M |-> 0],
                       roundUp).t

\* A call of _otsu_threshold on the grayscale field of the image, or on an
\* array with no samples.
otsu_threshold_call ==
    /\ pc = "idle"
    /\ \E arr \in {image_to_gray_np(image), <<>>} :
        /\ field' = arr
        /\ thr' = RInt(otsu_threshold(to_u8(arr), fp.roundUp))
    /\ op' = "_otsu_threshold"
    /\ pc' = "done"
    /\ UNCHANGED <<image, args, centroids, iters, result, fp, seen, widgets>>

\* ------------------------------------------------------------ Sobel
\* A wrong padding: zeros around the plane.
EdgeAt_Zero(plane, h, w, r, c) ==
    IF r < 1 \/ r > h \/ c < 1 \/ c > w THEN 0 ELSE plane[(r - 1) * w + c]

\* The sample at row r, column c of an h*w plane extended on every side by
\* edge replication: np.pad(arr, ..., mode="edge"), PIL's Image.expand.
EdgeAt(plane, h, w, r, c) ==
    plane[(Min2(h, Max2(1, r)) - 1) * w + Min2(w, Max2(1, c))]

\* gx at (r, c): right column minus left column of the 3x3 neighbourhood.
sobel_gx(plane, h, w, r, c) ==
    (EdgeAt(plane, h, w, r - 1, c + 1) + 2 * EdgeAt(plane, h, w, r, c + 1)
        + EdgeAt(plane, h, w, r + 1, c + 1))
    - (EdgeAt(plane, h, w, r - 1, c - 1) + 2 * EdgeAt(plane, h, w, r, c - 1)
        + EdgeAt(plane, h, w, r + 1, c - 1))

\* gy at (r, c): bottom row minus top row of the 3x3 neighbourhood.
sobel_gy(plane, h, w, r, c) ==
    (EdgeAt(plane, h, w, r + 1, c - 1) + 2 * EdgeAt(plane, h, w, r + 1, c)
        + EdgeAt(plane, h, w, r + 1, c + 1))
    - (EdgeAt(plane, h, w, r - 1, c - 1) + 2 * EdgeAt(plane, h, w, r - 1, c)
        + EdgeAt(plane, h, w, r - 1, c + 1))

\* mag*mag = gx*gx + gy*gy at every sample (mag = np.hypot(gx, gy)).
sobel_mag2(plane, h, w) ==
    [i \in 1..(h * w) |->
        LET r  == ((i - 1) \div w) + 1
            c  == ((i - 1) % w) + 1
            gx == sobel_gx(plane, h, w, r, c)
            gy == sobel_gy(plane, h, w, r, c)
        IN  gx * gx + gy * gy]

RECURSIVE MaxSeq(_)
MaxSeq(s) == IF Len(s) = 1 THEN s[1] ELSE Max2(Head(s), MaxSeq(Tail(s)))

\* Whether 255*sqrt(a/b) < n + 1/2, for 0 <= a <= b, b > 0.
BelowHalf(a, b, n) == FracLess(a, b, (2 * n + 1) * (2 * n + 1), 4 * 255 * 255)

\* The least n in lo..hi with 255*sqrt(a/b) <= n + 1/2 (there is one).
RECURSIVE LeastCeil(_, _, _, _)
LeastCeil(a, b, lo, hi) ==
    IF lo = hi THEN lo
    ELSE LET mid == (lo + hi) \div 2
         IN  IF FracLess((2 * mid + 1) * (2 * mid + 1), 4 * 255 * 255, a, b)
             THEN LeastCeil(a, b, mid + 1, hi)
             ELSE LeastCeil(a, b, lo, mid)

\* mag_norm = mag * (255.0 / mmax) is a float32 product: it is within a
\* rounding error of the real number 255*sqrt(a/b) (mag*mag = a, mmax*mmax = b).
\* Where that real number lies exactly on a boundary the code compares it
\* with, err says on which side the float32 value falls: -1 below, 1 above,
\* 0 exactly on it.
FloatErr == {-1, 0, 1}

\* np.rint(mag_norm), one entry: 255*sqrt(a/b) rounded, half to even.
sobel_rint_norm(a, b, err) ==
    LET n == LeastCeil(a, b, 0, 255)
    IN  IF BelowHalf(a, b, n) THEN n
        ELSE IF err = -1 THEN n
        ELSE IF err = 1 THEN n + 1
        ELSE IF n % 2 = 0 THEN n ELSE n + 1

\* edges = mag_norm >= t, one entry, for an integer t >= 0.  (A magnitude of
\* 0 gives the exact product 0.0.)
sobel_edge(a, b, t, err) ==
    IF FracLess(a, b, t * t, 255 * 255) THEN FALSE
    ELSE IF FracLess(t * t, 255 * 255, a, b) THEN TRUE
    ELSE a = 0 \/ err >= 0

\* The boolean edge map of segment_edges_sobel.
sobel_edges(img, roundUp, err) ==
    LET arr  == image_to_gray_np(img)
        mag2 == sobel_mag2(arr, img.h, img.w)
        mmax == IF Len(mag2) > 0 THEN MaxSeq(mag2) ELSE 0
        norm == [i \in 1..Len(mag2) |->
                    IF mmax > 0 THEN sobel_rint_norm(mag2[i], mmax, err) ELSE 0]
        t    == otsu_threshold(norm, roundUp)
    IN  [i \in 1..Len(mag2) |->
            IF mmax > 0 THEN sobel_edge(mag2[i], mmax, t, err) ELSE 0 >= t]

segment_edges_sobel ==
    /\ pc = "idle"
    /\ result' = apply_binary_mask(image.h, image.w,
                                   sobel_edges(image, fp.sobelRoundUp, fp.err))
    /\ op' = "segment_edges_sobel"
    /\ pc' = "done"
    /\ UNCHANGED <<image, args, field, thr, centroids, iters, fp, seen, widgets>>

\* ------------------------------------------------------------ P-tile
\* The p a caller may pass, in and out of [0, 1] (all exact as floats).
PValues == {Rat(-1, 4), RInt(0), Rat(1, 4), Rat(1, 2), Rat(3, 4), RInt(1), Rat(5, 4)}

\* float(np.clip(p, 0.0, 1.0))
clip01(p) == IF RLess(p, RInt(0)) THEN RInt(0) ELSE IF RLess(RInt(1), p) THEN RInt(1) ELSE p

\* target = int(round(p * total))
ptile_target(p, total) == RoundHalfEven(p.n * total, p.d)

\* A different scan: it stops at the first level, from the top, whose count
\* reaches the target, and keeps that level.
RECURSIVE ptile_scan_FirstReached(_, _, _, _, _)
ptile_scan_FirstReached(hist, target, lo, hi, st) ==
    IF st.brk THEN st
    ELSE IF lo = hi
    THEN LET cum_t == st.acc + hist[lo]
         IN  IF cum_t >= target
             THEN [T |-> lo, acc |-> cum_t, brk |-> TRUE]
             ELSE [T |-> st.T, acc |-> cum_t, brk |-> FALSE]
    ELSE LET mid == (lo + hi) \div 2
         IN  ptile_scan_FirstReached(hist, target, lo, mid,
                                     ptile_scan_FirstReached(hist, target, mid + 1, hi, st))

\* The scan "for t in range(255, -1, -1)" of threshold_ptile over the levels
\* hi down to lo.  st carries the loop's state: T, the running sum acc
\* (cumsum_from_top[t] = acc + hist[t], as np.cumsum(hist[::-1]) builds it)
\* and brk, whether the loop has left by "break".  The range is halved so
\* that the evaluation stays shallow; the levels are visited in the loop's order.
RECURSIVE ptile_scan(_, _, _, _, _)
ptile_scan(hist, target, lo, hi, st) ==
    IF st.brk THEN st
    ELSE IF lo = hi
    THEN LET cum_t == st.acc + hist[lo]
         IN  IF cum_t >= target
             THEN [T |-> lo, acc |-> cum_t, brk |-> FALSE]
             ELSE [T |-> st.T, acc |-> cum_t, brk |-> TRUE]
    ELSE LET mid == (lo + hi) \div 2
         IN  ptile_scan(hist, target, lo, mid, ptile_scan(hist, target, mid + 1, hi, st))

\* The T of threshold_ptile for the uint8 array and the clipped p.
ptile_T(arr_u8, p) ==
    ptile_scan(bincount(arr_u8), ptile_target(p, Len(arr_u8)), 0, 255,
               [T |-> 255, acc |-> 0, brk |-> FALSE]).T

threshold_ptile ==
    /\ pc = "idle"
    /\ \E p0 \in PValues :
        LET p      == clip01(p0)
            arr_u8 == to_u8(image_to_gray_np(image))
            total  == Len(arr_u8)
            T      == ptile_T(arr_u8, p)
        IN  /\ op' = "threshold_ptile"
            /\ args' = [NoArgs EXCEPT !.p = p0]
            /\ IF total = 0
               THEN /\ thr' = RInt(0)
                    /\ result' = apply_binary_mask(image.h, image.w, <<>>)
               ELSE /\ thr' = RInt(T)
                    /\ result' = apply_binary_mask(image.h, image.w,
                                    [i \in 1..total |-> arr_u8[i] >= T])
    /\ pc' = "done"
    /\ UNCHANGED <<image, field, centroids, iters, fp, seen, widgets>>

\* ------------------------------------------------------------ iterative
\* The tol and max_iter a caller may pass (max_iter in and out of its range).
TolValues == {Rat(1, 2), RInt(50)}

MaxIterValues == {-1, 0, 1, 100}

\* A wrong refinement: the sum of the two class means, not their midpoint.
iterative_T_new_Sum(g1, g2) == RAdd(Mean(g1), Mean(g2))

\* T_new = 0.5 * (float(g1.mean()) + float(g2.mean()))
iterative_T_new(g1, g2) == RHalf(RAdd(Mean(g1), Mean(g2)))

\* A wrong mask: the samples at T taken as foreground.
iterative_mask_AtLeast(arr, T) == [i \in 1..Len(arr) |-> RLeq(T, RInt(arr[i]))]

\* mask = arr > T
iterative_mask(arr, T) == [i \in 1..Len(arr) |-> RLess(T, RInt(arr[i]))]

\* threshold_iterative up to the loop: T = mean of the field (0.0 if empty).
threshold_iterative_start ==
    /\ pc = "idle"
    /\ \E tol \in TolValues, max_iter \in MaxIterValues :
        args' = [NoArgs EXCEPT !.tol = tol, !.max_iter = max_iter]
    /\ LET arr == image_to_gray_np(image)
       IN  thr' = IF Len(arr) > 0 THEN Mean(arr) ELSE RInt(0)
    /\ op' = "threshold_iterative"
    /\ pc' = "iter_loop"
    /\ iters' = 0
    /\ UNCHANGED <<image, field, centroids, result, fp, seen, widgets>>

\* The body of "for _ in range(max_iter)" run once from T: the T it leaves,
\* and whether it leaves the loop by break - when a group is empty (T kept)
\* or when T moved by less than tol (T replaced).
iterative_pass(arr, T, tol) ==
    LET g1 == SelectCmp(arr, T, FALSE)
        g2 == SelectCmp(arr, T, TRUE)
    IN  IF Len(g1) = 0 \/ Len(g2) = 0
        THEN [T |-> T, break |-> TRUE]
        ELSE LET T_new == iterative_T_new(g1, g2)
             IN  [T |-> T_new, break |-> RLess(RAbs(RSub(T_new, T)), tol)]

\* One pass of "for _ in range(max_iter)".
threshold_iterative_step ==
    /\ pc = "iter_loop"
    /\ iters < args.max_iter
    /\ \E pass \in {iterative_pass(image_to_gray_np(image), thr, args.tol)} :
        /\ thr' = pass.T
        /\ pc' = IF pass.break THEN "iter_exit" ELSE "iter_loop"
    /\ iters' = iters + 1
    /\ UNCHANGED <<op, image, args, field, centroids, result, fp, seen, widgets>>

\* After the loop (left by break, or range(max_iter) exhausted): the mask.
threshold_iterative_finish ==
    /\ \/ pc = "iter_exit"
       \/ pc = "iter_loop" /\ iters >= args.max_iter
    /\ result' = apply_binary_mask(image.h, image.w,
                                   iterative_mask(image_to_gray_np(image), thr))
    /\ pc' = "done"
    /\ UNCHANGED <<op, image, args, field, thr, centroids, iters, fp, seen, widgets>>

\* ------------------------------------------------------------ k-means
\* The k and max_iter a caller may pass (both in and out of their ranges).
KValues == {-1, 0, 1, 2, 3}

KMaxIterValues == {0, 1, 50}

\* A wrong test: a centroid counts as moved only beyond 30 levels.
CentroidMoved_Coarse(new_c, c) == RLess(RInt(30), RAbs(RSub(new_c, c)))

\* abs(new_c - centroid) > 1e-3
CentroidMoved(new_c, c) == RLess(Rat(1, 1000), RAbs(RSub(new_c, c)))

\* np.linspace(0.0, 255.0, num=k), k >= 0: k evenly spaced values, [0.0] for k = 1.
linspace_0_255(k) == [i \in 1..k |-> IF k = 1 THEN RInt(0) ELSE Rat(255 * (i - 1), k - 1)]

\* A wrong distance: the signed difference.
kmeans_dist_Signed(x, c) == RSub(RInt(x), c)

\* dists = np.abs(flat - centroids.T), one entry
kmeans_dist(x, c) == RAbs(RSub(RInt(x), c))

\* A wrong argmin: the last centroid at the least distance.
kmeans_label_Last(x, cs) ==
    CHOOSE ci \in 1..Len(cs) :
        /\ \A cj \in 1..Len(cs) : RLeq(kmeans_dist(x, cs[ci]), kmeans_dist(x, cs[cj]))
        /\ \A cj \in (ci + 1)..Len(cs) : RLess(kmeans_dist(x, cs[ci]), kmeans_dist(x, cs[cj]))

\* np.argmin(dists, axis=1) for one sample: the first centroid at the least
\* distance (cs non-empty).
kmeans_label(x, cs) ==
    CHOOSE ci \in 1..Len(cs) :
        /\ \A cj \in 1..Len(cs) : RLeq(kmeans_dist(x, cs[ci]), kmeans_dist(x, cs[cj]))
        /\ \A cj \in 1..(ci - 1) : RLess(kmeans_dist(x, cs[ci]), kmeans_dist(x, cs[cj]))

kmeans_labels(flat, cs) == [i \in 1..Len(flat) |-> kmeans_label(flat[i], cs)]

\* pts = flat[labels == ci]
kmeans_pts(flat, labels, ci) ==
    LET RECURSIVE pick(_)
        pick(i) == IF i > Len(flat) THEN <<>>
                   ELSE IF labels[i] = ci THEN <<flat[i]>> \o pick(i + 1) ELSE pick(i + 1)
    IN  pick(1)

\* A wrong update: any cluster may take the value of one of its samples.
kmeans_new_c_Drawn(flat, labels, ci) ==
    LET pts == kmeans_pts(flat, labels, ci)
    IN  IF Len(pts) = 0 THEN {RInt(flat[i]) : i \in 1..Len(flat)}
        ELSE {Mean(pts)} \cup {RInt(pts[i]) : i \in 1..Len(pts)}

\* The values new_c may take for cluster ci: the mean of its samples, or,
\* for an empty cluster, any sample of the image (np.random.choice).
kmeans_new_c(flat, labels, ci) ==
    LET pts == kmeans_pts(flat, labels, ci)
    IN  IF Len(pts) = 0 THEN {RInt(flat[i]) : i \in 1..Len(flat)} ELSE {Mean(pts)}

\* centroids.squeeze()[labels].astype(np.uint8), one entry: the float32
\* centroid converted to uint8 (the fraction is dropped).
kmeans_out(c) == TruncToward0(c.n, c.d)

\* kmeans_segment up to the loop.  np.linspace raises ValueError for num < 0.
kmeans_segment_start ==
    /\ pc = "idle"
    /\ \E k \in KValues, max_iter \in KMaxIterValues :
        /\ args' = [NoArgs EXCEPT !.k = k, !.max_iter = max_iter]
        /\ IF k < 0
           THEN /\ pc' = "raised"
                /\ centroids' = <<>>
           ELSE /\ pc' = "kmeans_loop"
                /\ centroids' = linspace_0_255(k)
    /\ op' = "kmeans_segment"
    /\ iters' = 0
    /\ UNCHANGED <<image, field, thr, result, fp, seen, widgets>>

\* One pass of "for _ in range(max_iter)".  np.argmin raises ValueError when
\* there is no centroid (k = 0); np.random.choice raises ValueError when the
\* image has one sample (flat.squeeze() is then 0-dimensional).
kmeans_segment_step ==
    /\ pc = "kmeans_loop"
    /\ iters < args.max_iter
    /\ LET flat == image_to_gray_np(image)
           k    == args.k
       IN  IF k = 0
           THEN /\ pc' = "raised"
                /\ centroids' = centroids
           ELSE LET labels == kmeans_labels(flat, centroids)
                    empty  == {ci \in 1..k : Len(kmeans_pts(flat, labels, ci)) = 0}
                IN  IF empty # {} /\ Len(flat) = 1
                    THEN /\ pc' = "raised"
                         /\ centroids' = centroids
                    ELSE \E new_centroids \in
                                [1..k -> UNION {kmeans_new_c(flat, labels, ci) : ci \in 1..k}] :
                            /\ \A ci \in 1..k :
                                  new_centroids[ci] \in kmeans_new_c(flat, labels, ci)
                            /\ centroids' = new_centroids
                            /\ pc' = IF \E ci \in 1..k :
                                            CentroidMoved(new_centroids[ci], centroids[ci])
                                     THEN "kmeans_loop" ELSE "kmeans_exit"
    /\ iters' = iters + 1
    /\ UNCHANGED <<op, image, args, field, thr, result, fp, seen, widgets>>

\* The final assignment and the posterized image (k >= 2): every sample
\* replaced by the uint8 value of the centroid nearest to it.
kmeans_posterize(img, cs) ==
    LET flat   == image_to_gray_np(img)
        labels == kmeans_labels(flat, cs)
    IN  LImage(img.h, img.w, [i \in 1..Len(flat) |-> kmeans_out(cs[labels[i]])])

\* After the loop: the final assignment and the posterized image.  np.argmin
\* raises ValueError for k = 0; for k = 1 centroids.squeeze() is 0-dimensional
\* and indexing it with labels raises IndexError.
kmeans_segment_finish ==
    /\ \/ pc = "kmeans_exit"
       \/ pc = "kmeans_loop" /\ iters >= args.max_iter
    /\ IF args.k <= 1
       THEN /\ pc' = "raised"
            /\ result' = NoImage
       ELSE /\ pc' = "done"
            /\ result' = kmeans_posterize(image, centroids)
    /\ UNCHANGED <<op, image, args, field, thr, centroids, iters, fp, seen, widgets>>

\* ------------------------------------------------------------ adaptive
\* The window sizes, C, T, stat kinds and polarities a caller may pass (the
\* window in and out of its range; C and T exact as floats).
WindowValues == {0, 3, 4}

CValues == {RInt(1), Rat(1, 2)}

TValues == {RInt(0), RInt(10)}

StatValues == {"mean", "Median", "midrange", "range"}

PolarityValues == {"bright", "dark"}

\* str.lower() on the strings the callers pass.
Lower(str) == IF str = "Median" THEN "median" ELSE str

\* A wrong window: an even size is kept.
local_stat_window_Even(window_size) == Max2(3, window_size)

\* w = max(3, int(window_size)); if w % 2 == 0: w += 1
local_stat_window(window_size) ==
    LET w0 == Max2(3, window_size)
    IN  IF w0 % 2 = 0 THEN w0 + 1 ELSE w0

\* radius = max(1, (w - 1) // 2)
local_stat_radius(w0) == Max2(1, (w0 - 1) \div 2)

\* A wrong blur: the scaled sum is cut, not rounded.
BoxBlurLine_Floor(line, radius) ==
    LET n     == Len(line)
        at(i) == line[Min2(n, Max2(1, i))]
        acc(x) == SumSeq([j \in 1..(2 * radius + 1) |-> at(x - radius - 1 + j)])
        ww    == 16777216 \div (2 * radius + 1)
        cut(a) == (a * (ww \div 4096) + ((a * (ww % 4096)) \div 4096)) \div 4096
    IN  [x \in 1..n |-> cut(acc(x))]

\* ImageFilter.BoxBlur on one line: each output sample is the sum acc of the
\* 2*radius+1 samples around it (the line extended by its end samples),
\* scaled by ww = floor(2^24 / (2*radius+1)) and rounded, (acc*ww + 2^23) >> 24.
\* (The weight of the two samples beyond the window is 0 for an integer
\* radius of 1, 2 or 3.)  ww = qh*4096 + ql keeps the products small.
BoxBlurLine(line, radius) ==
    LET n     == Len(line)
        ww    == 16777216 \div (2 * radius + 1)
        qh    == ww \div 4096
        ql    == ww % 4096
        at(i) == line[Min2(n, Max2(1, i))]
        acc(x) == SumSeq([j \in 1..(2 * radius + 1) |-> at(x - radius - 1 + j)])
        save(a) == (a * qh + ((a * ql + 8388608) \div 4096)) \div 4096
    IN  [x \in 1..n |-> save(acc(x))]

\* ImageFilter.BoxBlur(radius) on an h*w plane: every row is blurred, then
\* every column of the (8-bit) result.
BoxBlur(plane, h, w, radius) ==
    LET rows == [r \in 1..h |-> BoxBlurLine([c \in 1..w |-> plane[(r - 1) * w + c]], radius)]
        cols == [c \in 1..w |-> BoxBlurLine([r \in 1..h |-> rows[r][c]], radius)]
    IN  [i \in 1..(h * w) |-> cols[((i - 1) % w) + 1][((i - 1) \div w) + 1]]

\* ImageFilter.RankFilter(size, rank) on an h*w plane: at every sample the
\* rank-th smallest (from 0) of the size*size samples around it, the plane
\* extended by edge replication.
RankFilter(plane, h, w, size, rank) ==
    LET m == size \div 2
        window(r, c) ==
            [j \in 1..(size * size) |->
                EdgeAt(plane, h, w, r - m + ((j - 1) \div size), c - m + ((j - 1) % size))]
        ranked(cells) ==
            CHOOSE v \in {cells[j] : j \in 1..Len(cells)} :
                /\ Cardinality({j \in 1..Len(cells) : cells[j] < v}) <= rank
                /\ Cardinality({j \in 1..Len(cells) : cells[j] <= v}) > rank
    IN  [i \in 1..(h * w) |-> ranked(window(((i - 1) \div w) + 1, ((i - 1) % w) + 1))]

\* MedianFilter(size), MinFilter(size), MaxFilter(size)
MedianFilter(plane, h, w, size) == RankFilter(plane, h, w, size, (size * size) \div 2)

MinFilter(plane, h, w, size) == RankFilter(plane, h, w, size, 0)

MaxFilter(plane, h, w, size) == RankFilter(plane, h, w, size, size * size - 1)

\* _local_stat: the field S of the local statistic of the grayscale image.
local_stat(gray_img, window_size, stat) ==
    LET w0       == local_stat_window(window_size)
        stat_key == Lower(IF stat = "" THEN "mean" ELSE stat)
        plane    == gray_img.bands[1]
        hh       == gray_img.h
        ww       == gray_img.w
        filt     == BoxBlur(plane, hh, ww, local_stat_radius(w0))
        med      == MedianFilter(plane, hh, ww, w0)
        mn_arr   == MinFilter(plane, hh, ww, w0)
        mx_arr   == MaxFilter(plane, hh, ww, w0)
    IN  IF stat_key = "mean"
        THEN [i \in 1..(hh * ww) |-> RInt(filt[i])]
        ELSE IF stat_key = "median"
        THEN [i \in 1..(hh * ww) |-> RInt(med[i])]
        ELSE IF stat_key \in {"midrange", "minmax", "min+max/2"}
        THEN [i \in 1..(hh * ww) |-> RHalf(RInt(mn_arr[i] + mx_arr[i]))]
        ELSE [i \in 1..(hh * ww) |-> RInt(filt[i])]

\* thresh = (float(C) * S) + float(T), one entry
adaptive_thresh(C, s, T) == RAdd(RMul(C, s), T)

\* A wrong mask: the sample must lie strictly beyond the cut.
adaptive_mask_Strict(pol, x, thresh) ==
    IF pol = "dark" THEN RLess(RInt(x), thresh) ELSE RLess(thresh, RInt(x))

\* mask = I <= thresh (dark) or I >= thresh (any other polarity), one entry
adaptive_mask(pol, x, thresh) ==
    IF pol = "dark" THEN RLeq(RInt(x), thresh) ELSE RLeq(thresh, RInt(x))

adaptive_threshold ==
    /\ pc = "idle"
    /\ \E k \in WindowValues, stat \in StatValues :
        LET gray == to_grayscale(image)
            I    == gray.bands[1]
            S    == local_stat(gray, k, stat)
        IN  \E C \in CValues, T \in TValues, polarity \in PolarityValues :
                LET pol == Lower(IF polarity = "" THEN "bright" ELSE polarity)
                IN  /\ args' = [NoArgs EXCEPT !.k = k, !.C = C, !.T = T,
                                              !.stat = stat, !.polarity = polarity]
                    /\ field' = S
                    /\ result' = apply_binary_mask(image.h, image.w,
                                    [i \in 1..Len(I) |->
                                        adaptive_mask(pol, I[i], adaptive_thresh(C, S[i], T))])
    /\ op' = "adaptive_threshold"
    /\ pc' = "done"
    /\ UNCHANGED <<image, thr, centroids, iters, fp, seen, widgets>>

\* ------------------------------------------------------------ grayscale
to_grayscale_call ==
    /\ pc = "idle"
    /\ result' = to_grayscale(image)
    /\ op' = "to_grayscale"
    /\ pc' = "done"
    /\ UNCHANGED <<image, args, field, thr, centroids, iters, fp, seen, widgets>>

\* ------------------------------------------------------------ compare grids
\* The ways one call of kmeans_segment(img, k, max_iter) may end, computed over
\* every draw of np.random.choice.  An outcome is the image returned, or
\* Raised when an exception leaves the call.
Raised == [raised |-> TRUE, img |-> NoImage]

Returned(img) == [raised |-> FALSE, img |-> img]

\* The new centroids one pass of the loop may compute from cs (k >= 1).
kmeans_updates(flat, k, cs) ==
    LET labels == kmeans_labels(flat, cs)
    IN  {f \in [1..k -> UNION {kmeans_new_c(flat, labels, ci) : ci \in 1..k}] :
            \A ci \in 1..k : f[ci] \in kmeans_new_c(flat, labels, ci)}

\* Whether the pass from cs raises: an empty cluster in a one-sample image.
kmeans_pass_raises(flat, k, cs) ==
    LET labels == kmeans_labels(flat, cs)
    IN  Len(flat) = 1 /\ \E ci \in 1..k : Len(kmeans_pts(flat, labels, ci)) = 0

\* One pass of the loop from every centroid vector of active: the vectors the
\* loop stops with (no centroid moved), those it goes on with, whether some
\* pass raises, and whether some pass re-seeds an empty cluster.
kmeans_sweep(flat, k, active) ==
    LET ok    == {cs \in active : ~kmeans_pass_raises(flat, k, cs)}
        nexts == UNION {{[cs |-> n, moved |-> \E ci \in 1..k : CentroidMoved(n[ci], cs[ci])] :
                            n \in kmeans_updates(flat, k, cs)} : cs \in ok}
    IN  [stop     |-> {x.cs : x \in {y \in nexts : ~y.moved}},
         go       |-> {x.cs : x \in {y \in nexts : y.moved}},
         raised   |-> ok # active,
         reseeded |-> \E cs \in ok : \E ci \in 1..k :
                         Len(kmeans_pts(flat, kmeans_labels(flat, cs), ci)) = 0]

\* The loop "for _ in range(max_iter)" from pass number it on, run from every
\* centroid vector of active at once: the centroid vectors the loop may end
\* with (finals), whether some run raises (raised), and whether some run
\* re-seeds an empty cluster (reseeded).  When a pass maps active to itself,
\* every later pass does, and the rest is known.
RECURSIVE kmeans_runs(_, _, _, _, _)
kmeans_runs(flat, k, active, max_iter, it) ==
    IF it >= max_iter \/ active = {}
    THEN [finals |-> active, raised |-> FALSE, reseeded |-> FALSE]
    ELSE LET step(sw) ==
                 IF sw.go = active
                 THEN [finals |-> sw.stop \cup sw.go, raised |-> sw.raised,
                       reseeded |-> sw.reseeded]
                 ELSE LET rest(r) == [finals   |-> sw.stop \cup r.finals,
                                      raised   |-> sw.raised \/ r.raised,
                                      reseeded |-> sw.reseeded \/ r.reseeded]
                      IN  CHOOSE out \in {rest(r) :
                                r \in {kmeans_runs(flat, k, sw.go, max_iter, it + 1)}} : TRUE
         IN  CHOOSE out \in {step(sw) : sw \in {kmeans_sweep(flat, k, active)}} : TRUE

\* Whether some run of kmeans_segment(img, k, max_iter) finds a cluster empty
\* and draws its centroid with np.random.choice.
kmeans_reseeds(img, k, max_iter) ==
    /\ k >= 1
    /\ kmeans_runs(image_to_gray_np(img), k, {linspace_0_255(k)}, max_iter, 0).reseeded

kmeans_segment_outcomes(img, k, max_iter) ==
    IF k <= 1 THEN {Raised}
    ELSE LET runs == kmeans_runs(image_to_gray_np(img), k, {linspace_0_255(k)}, max_iter, 0)
         IN  {Returned(kmeans_posterize(img, cs)) : cs \in runs.finals}
                \cup (IF runs.raised THEN {Raised} ELSE {})

\* The default max_iter of kmeans_segment, used by kmeans_compare.
kmeans_default_max_iter == 50

\* The height of the label strip and the gap between panels.
label_h == 24

gap == 12

\* A label f"{key}={value}".
Label(key, value) == [key |-> key, value |-> value]

\* A canvas: an "L" image of the given size filled with 255, on which the
\* labels were drawn and the panels pasted, in sequence order, each with its
\* top-left corner at (x, y).
Canvas(total_w, total_h, labels, panels) ==
    [mode |-> "L", h |-> total_h, w |-> total_w, fill |-> 255,
     labels |-> labels, panels |-> panels]

\* A wrong layout: blocks side by side with no gap.
block_x_NoGap(w, i) == (i - 1) * w

\* The x of the i-th block (from 1): x starts at 0 and grows by w + gap.
block_x(w, i) == (i - 1) * (w + gap)

\* The canvas kmeans_compare builds from imgs, a non-empty sequence of
\* <<label, image>> pairs.
kmeans_compare_canvas(imgs) ==
    LET w == imgs[1][2].w
        h == imgs[1][2].h
        n == Len(imgs)
    IN  Canvas(w * n + gap * (n - 1), h + label_h,
               [i \in 1..n |-> [text |-> imgs[i][1], x |-> block_x(w, i) + 6, y |-> 4]],
               [i \in 1..n |-> [img |-> imgs[i][2], x |-> block_x(w, i), y |-> label_h]])

\* The sequences that take their i-th element from the i-th set of sets.
RECURSIVE SeqProduct(_)
SeqProduct(sets) ==
    IF sets = <<>> THEN {<<>>}
    ELSE {<<x>> \o rest : x \in Head(sets), rest \in SeqProduct(Tail(sets))}

\* The lists of cluster counts a caller may pass.
KsLists == {<<>>, <<2>>, <<1, 3>>}

kmeans_compare ==
    /\ pc = "idle"
    /\ \E ks \in KsLists :
        /\ args' = [NoArgs EXCEPT !.values = ks]
        /\ IF Len(ks) = 0
           THEN /\ result' = to_grayscale(image)
                /\ pc' = "done"
           ELSE \E outs \in {[i \in 1..Len(ks) |->
                                kmeans_segment_outcomes(image, Max2(2, ks[i]),
                                                        kmeans_default_max_iter)]} :
                    \E seg \in SeqProduct(outs) :
                        IF \E i \in 1..Len(ks) : seg[i].raised
                        THEN /\ result' = NoImage
                             /\ pc' = "raised"
                        ELSE /\ result' = kmeans_compare_canvas(
                                    [i \in 1..Len(ks) |->
                                        <<Label("k", ks[i]), seg[i].img>>])
                             /\ pc' = "done"
    /\ op' = "kmeans_compare"
    /\ UNCHANGED <<image, field, thr, centroids, iters, fp, seen, widgets>>

\* A wrong call: the polarity is not passed on, so every run is "bright".
adaptive_threshold_image_Bright(img, k, C, T, stat, polarity) ==
    LET gray == to_grayscale(img)
        I    == gray.bands[1]
    IN  CHOOSE out \in
            {apply_binary_mask(img.h, img.w,
                [i \in 1..Len(I) |-> adaptive_mask("bright", I[i], adaptive_thresh(C, S[i], T))]) :
             S \in {local_stat(gray, k, stat)}} : TRUE

\* The image adaptive_threshold(img, k, C, T, stat, polarity) returns.
adaptive_threshold_image(img, k, C, T, stat, polarity) ==
    LET gray == to_grayscale(img)
        I    == gray.bands[1]
        pol  == Lower(IF polarity = "" THEN "bright" ELSE polarity)
    IN  CHOOSE out \in
            {apply_binary_mask(img.h, img.w,
                [i \in 1..Len(I) |-> adaptive_mask(pol, I[i], adaptive_thresh(C, S[i], T))]) :
             S \in {local_stat(gray, k, stat)}} : TRUE

\* _compose_labeled_row: the 1x1 white image for an empty list, else the
\* canvas with every label drawn at (x + 6, 4) and every image pasted at
\* (x, label_h), x growing by w + gap; w and h are those of the first image.
compose_labeled_row(labeled_images) ==
    IF Len(labeled_images) = 0 THEN LImage(1, 1, <<255>>)
    ELSE LET w == labeled_images[1][2].w
             h == labeled_images[1][2].h
             n == Len(labeled_images)
         IN  Canvas(w * n + gap * (n - 1), h + label_h,
                    [i \in 1..n |-> [text |-> labeled_images[i][1],
                                      x |-> block_x(w, i) + 6, y |-> 4]],
                    [i \in 1..n |-> [img |-> labeled_images[i][2],
                                      x |-> block_x(w, i), y |-> label_h]])

\* kk = int(k); if kk < 3: kk = 3; if kk % 2 == 0: kk += 1
compare_window(k) ==
    LET kk == IF k < 3 THEN 3 ELSE k
    IN  IF kk % 2 = 0 THEN kk + 1 ELSE kk

\* The lists and the other arguments a caller of the adaptive comparisons
\* may pass.
WindowLists == {<<>>, <<4>>, <<0, 3, 5>>}

CLists == {<<>>, <<Rat(1, 2), RInt(1)>>}

TLists == {<<>>, <<RInt(10), RInt(0)>>}

CompareWindows == {0, 4}

CompareStats == {"mean", "midrange"}

adaptive_compare_k ==
    /\ pc = "idle"
    /\ \E ks \in WindowLists, C \in CValues, T \in TValues,
          stat \in CompareStats, polarity \in PolarityValues :
        /\ args' = [NoArgs EXCEPT !.values = ks, !.C = C, !.T = T,
                                  !.stat = stat, !.polarity = polarity]
        /\ result' = compose_labeled_row(
                [i \in 1..Len(ks) |->
                    <<Label("k", compare_window(ks[i])),
                      adaptive_threshold_image(image, compare_window(ks[i]), C, T,
                                               stat, polarity)>>])
    /\ op' = "adaptive_compare_k"
    /\ pc' = "done"
    /\ UNCHANGED <<image, field, thr, centroids, iters, fp, seen, widgets>>

adaptive_compare_C ==
    /\ pc = "idle"
    /\ \E Cs \in CLists, k \in CompareWindows, T \in TValues,
          stat \in CompareStats, polarity \in PolarityValues :
        /\ args' = [NoArgs EXCEPT !.values = Cs, !.k = k, !.T = T,
                                  !.stat = stat, !.polarity = polarity]
        /\ result' = compose_labeled_row(
                [i \in 1..Len(Cs) |->
                    <<Label("C", Cs[i]),
                      adaptive_threshold_image(image, compare_window(k), Cs[i], T,
                                               stat, polarity)>>])
    /\ op' = "adaptive_compare_C"
    /\ pc' = "done"
    /\ UNCHANGED <<image, field, thr, centroids, iters, fp, seen, widgets>>

adaptive_compare_T ==
    /\ pc = "idle"
    /\ \E Ts \in TLists, k \in CompareWindows, C \in CValues,
          stat \in CompareStats, polarity \in PolarityValues :
        /\ args' = [NoArgs EXCEPT !.values = Ts, !.k = k, !.C = C,
                                  !.stat = stat, !.polarity = polarity]
        /\ result' = compose_labeled_row(
                [i \in 1..Len(Ts) |->
                    <<Label("T", Ts[i]),
                      adaptive_threshold_image(image, compare_window(k), C, Ts[i],
                                               stat, polarity)>>])
    /\ op' = "adaptive_compare_T"
    /\ pc' = "done"
    /\ UNCHANGED <<image, field, thr, centroids, iters, fp, seen, widgets>>

\* ------------------------------------------------------------ sidebar
\* The longest text typed into an entry.
MaxTextLen == 5

\* The keys typed into the entries, and the texts they make.
Keys == {"2", "9", "-", ",", " "}

Texts == UNION {[1..n -> Keys] : n \in 0..MaxTextLen}

DigitValue(c) ==
    CASE c = "0" -> 0 [] c = "1" -> 1 [] c = "2" -> 2 [] c = "3" -> 3 [] c = "4" -> 4
      [] c = "5" -> 5 [] c = "6" -> 6 [] c = "7" -> 7 [] c = "8" -> 8 [] c = "9" -> 9

IsDigit(c) == c \in {"0", "1", "2", "3", "4", "5", "6", "7", "8", "9"}

\* str.strip(): the text without the blanks at its two ends.
RECURSIVE strip(_)
strip(t) ==
    IF t = <<>> THEN <<>>
    ELSE IF Head(t) = " " THEN strip(Tail(t))
    ELSE IF t[Len(t)] = " " THEN strip(SubSeq(t, 1, Len(t) - 1))
    ELSE t

\* str.split(","): the pieces between the commas (one piece when there is none).
RECURSIVE split(_)
split(t) ==
    IF \A i \in 1..Len(t) : t[i] # ","
    THEN <<t>>
    ELSE LET at == CHOOSE i \in 1..Len(t) : t[i] = "," /\ \A j \in 1..(i - 1) : t[j] # ","
         IN  <<SubSeq(t, 1, at - 1)>> \o split(SubSeq(t, at + 1, Len(t)))

\* The outcome of a conversion that may raise ValueError.
ValueError == [ok |-> FALSE, v |-> 0]

Value(v) == [ok |-> TRUE, v |-> v]

\* The number a run of digits writes.
RECURSIVE decimal(_)
decimal(ds) == IF ds = <<>> THEN 0 ELSE 10 * decimal(SubSeq(ds, 1, Len(ds) - 1)) + DigitValue(ds[Len(ds)])

\* int(text): blanks at the ends are dropped, then an optional sign and at
\* least one digit are required; anything else raises ValueError.
py_int(t) ==
    LET st     == strip(t)
        signed == st # <<>> /\ Head(st) \in {"-", "+"}
        ds     == IF signed THEN Tail(st) ELSE st
    IN  IF ds = <<>> \/ \E i \in 1..Len(ds) : ~IsDigit(ds[i]) THEN ValueError
        ELSE Value(IF signed /\ Head(st) = "-" THEN -decimal(ds) ELSE decimal(ds))

\* float(text) on the texts of Keys: the same numerals, read as floats.
py_float(t) == py_int(t)

\* parts = [p.strip() for p in text.split(",") if p.strip()]
parts(t) ==
    LET ps == split(strip(t))
    IN  SelectSeq([i \in 1..Len(ps) |-> strip(ps[i])], LAMBDA q : q # <<>>)

\* ks[:8]
First8(xs) == SubSeq(xs, 1, Min2(8, Len(xs)))

\* mi = max(1, min(10000, mi))
clamp_max_iter(mi) == Max2(1, Min2(10000, mi))

\* Positions of the sliders, the ends of each range among them: the threshold
\* tab's P (percent, 0 to 100), tol (0.1 to 5), window k (3 to 51), C (0 to 2)
\* and T (-50 to 50), the k-means tab's k (2 to 8); and the entries of the
\* statistic menu (in English).
PtileSlider == {0, 30, 100}

TolSlider == {Rat(1, 10), Rat(1, 2), RInt(5)}

AdaptKSlider == {3, 4, 50, 51}

AdaptCSlider == {RInt(0), RInt(2)}

AdaptTSlider == {RInt(-50), RInt(50)}

KMeansKSlider == {2, 3, 8}

StatMenu == {"Mean", "Median", "Midrange (min+max)/2"}

\* get_ptile_p
get_ptile_p(percent) == clip01(Rat(percent, 100))

\* get_iterative_params: (tol, max_iter); max_iter is 100 when the text is no
\* integer.
get_iterative_params(tol, text) ==
    LET mi == IF py_int(text).ok THEN py_int(text).v ELSE 100
    IN  <<tol, clamp_max_iter(mi)>>

\* get_kmeans_single_params: (k, max_iter); max_iter is 50 when the text is no
\* integer.
get_kmeans_single_params(slider, text) ==
    LET mi == IF py_int(text).ok THEN py_int(text).v ELSE 50
    IN  <<Max2(2, Min2(64, slider)), clamp_max_iter(mi)>>

\* get_kmeans_compare_ks: the integers >= 2 of the text, [2, 3, 4] when there
\* is none, at most eight of them.
get_kmeans_compare_ks(text) ==
    LET ps   == parts(text)
        ints == SelectSeq([i \in 1..Len(ps) |-> py_int(ps[i])], LAMBDA x : x.ok /\ x.v >= 2)
        ks   == [i \in 1..Len(ints) |-> ints[i].v]
    IN  First8(IF ks = <<>> THEN <<2, 3, 4>> ELSE ks)

\* get_adaptive_params: (k, C, T, stat, polarity); k at least 3 and odd.
get_adaptive_params(slider, C, T, stat_text) ==
    LET k3       == IF slider < 3 THEN 3 ELSE slider
        k_val    == IF k3 % 2 = 0 THEN k3 + 1 ELSE k3
        stat_key == IF stat_text = "Mean" THEN "mean"
                    ELSE IF stat_text = "Median" THEN "median" ELSE "midrange"
    IN  <<k_val, C, T, stat_key, "bright">>

\* get_adaptive_compare_ks: the integers >= 3 of the text, the even ones
\* raised by one, [3, 5, 9, 15] when there is none, at most eight of them.
get_adaptive_compare_ks(text) ==
    LET ps   == parts(text)
        ints == SelectSeq([i \in 1..Len(ps) |-> py_int(ps[i])], LAMBDA x : x.ok /\ x.v >= 3)
        ks   == [i \in 1..Len(ints) |-> IF ints[i].v % 2 = 0 THEN ints[i].v + 1 ELSE ints[i].v]
    IN  First8(IF ks = <<>> THEN <<3, 5, 9, 15>> ELSE ks)

\* get_adaptive_compare_Cs / get_adaptive_compare_Ts: the floats of the text,
\* the default list when there is none, at most eight of them.
get_adaptive_compare_floats(text, default) ==
    LET ps   == parts(text)
        nums == SelectSeq([i \in 1..Len(ps) |-> py_float(ps[i])], LAMBDA x : x.ok)
        out  == [i \in 1..Len(nums) |-> RInt(nums[i].v)]
    IN  First8(IF out = <<>> THEN default ELSE out)

get_adaptive_compare_Cs(text) ==
    get_adaptive_compare_floats(text, <<Rat(4, 5), RInt(1), Rat(6, 5)>>)

get_adaptive_compare_Ts(text) ==
    get_adaptive_compare_floats(text, <<RInt(-10), RInt(0), RInt(10)>>)

\* ------------------------------------------------------------ widgets
\* The sizes winfo_width() and winfo_height() may report for the viewer's
\* canvas: 1 x 1 before the window is drawn.
CanvasSizes == {<<1, 1>>, <<800, 600>>}

\* ImageViewer as constructed; NoImage stands for None.
ViewerBuilt ==
    [original_image |-> NoImage, processed_image |-> NoImage,
     scale_factor |-> RInt(1), fit_scale_factor |-> RInt(1),
     compare_mode |-> "off", hold_before_active |-> FALSE]

\* max(0.1, min(4.0, x))
clamp_scale(x) ==
    IF RLess(x, Rat(1, 10)) THEN Rat(1, 10) ELSE IF RLess(RInt(4), x) THEN RInt(4) ELSE x

\* _compute_fit_scale: the scale at which img fits the canvas, 1.0 without an
\* image.  canvas is <<width, height>>.
compute_fit_scale(img, canvas) ==
    IF img = NoImage \/ img.w = 0 \/ img.h = 0 THEN RInt(1)
    ELSE LET scale_w == Rat(Max2(1, canvas[1]), img.w)
             scale_h == Rat(Max2(1, canvas[2]), img.h)
         IN  clamp_scale(IF RLess(scale_w, scale_h) THEN scale_w ELSE scale_h)

\* set_image: the original is replaced, the processed image dropped and the
\* zoom set to fit.
set_image(v, img, canvas) ==
    [v EXCEPT !.original_image = img,
              !.processed_image = NoImage,
              !.fit_scale_factor = compute_fit_scale(img, canvas),
              !.scale_factor = compute_fit_scale(img, canvas)]

\* set_processed_image
set_processed_image(v, img) == [v EXCEPT !.processed_image = img]

\* set_zoom_to_fit
set_zoom_to_fit(v, canvas) ==
    [v EXCEPT !.fit_scale_factor = compute_fit_scale(v.original_image, canvas),
              !.scale_factor = compute_fit_scale(v.original_image, canvas)]

\* set_zoom_percent
set_zoom_percent(v, zoom_percent) ==
    [v EXCEPT !.scale_factor = clamp_scale(Rat(zoom_percent, 100))]

\* get_zoom_percent: int(round(scale_factor * 100))
get_zoom_percent(v) == RoundHalfEven(v.scale_factor.n * 100, v.scale_factor.d)

\* The entries of the compare menu, in English.
CompareMenu == {"None", "Wipe", "2-up"}

\* set_compare_mode: the menu entry mapped to off, wipe or side_by_side.
set_compare_mode(v, mode) ==
    [v EXCEPT !.compare_mode =
        IF mode = "Wipe" THEN "wipe" ELSE IF mode = "2-up" THEN "side_by_side" ELSE "off"]

\* _render_image's show_after: whether the processed image is the one drawn
\* (in the single view, right of the wipe, in the right panel of 2-up).
show_after(v) == v.processed_image # NoImage /\ ~v.hold_before_active

\* _on_space_down
on_space_down(v) ==
    IF v.compare_mode \in {"off", "wipe"} /\ ~v.hold_before_active
    THEN [v EXCEPT !.hold_before_active = TRUE]
    ELSE v

\* _on_space_up
on_space_up(v) ==
    IF v.compare_mode \in {"off", "wipe"} /\ v.hold_before_active
    THEN [v EXCEPT !.hold_before_active = FALSE]
    ELSE v

\* The largest numerator or denominator a scale factor is followed to.
MaxScaleTerm == 30000

\* abs(x - y) < 1e-6
WithinMillionth(x, y) ==
    LET diff == RAbs(RSub(x, y))
    IN  diff.n <= (diff.d - 1) \div 1000000

\* _zoom_at_point's new scale; the call changes nothing when it is within
\* 1e-6 of the old one.
zoomed_scale(v, factor) == clamp_scale(RMul(v.scale_factor, factor))

\* The "Fit" entry of the preset buttons; the other entries are percents.
Fit == 0

Presets == {25, 50, 100, 200, 400}

\* BottomBar as constructed: the slider at 100, the label "100%" (zoom_value
\* is the number the label shows), the preset "100%" selected.
BottomBuilt == [zoom_slider |-> 100, zoom_value |-> 100, preset_buttons |-> 100]

\* BottomBar.set_zoom_percent
bottom_set_zoom_percent(b, percent) ==
    [b EXCEPT !.zoom_slider = percent,
              !.zoom_value = percent,
              !.preset_buttons =
                    IF percent \in Presets \/ b.preset_buttons # Fit
                    THEN percent ELSE b.preset_buttons]

\* ------------------------------------------------------------ controller
\* The processing modes the sidebar offers, their names in English; "None"
\* processes nothing.
ProcessingModes ==
    {"None", "Grayscale", "Edges (Sobel)", "Threshold (P-tile)", "Threshold (iterative)",
     "K-means (k=2)", "K-means (k=3)", "K-means (k=4)", "K-means compare (2,3,4)",
     "Threshold (adaptive)", "Adaptive compare (k)", "Adaptive compare (C)",
     "Adaptive compare (T)"}

\* The image a call of the service returns, for the calls whose pixels the
\* controller's specification does not compute.
ServiceResult(method, src, params) ==
    [mode |-> "result", h |-> src.h, w |-> src.w, bands |-> <<>>,
     method |-> method, src |-> src, params |-> params]

\* _handle_processing_change(mode) with _apply_processing: the mode is set and
\* applied to the loaded image with the parameters read from the sidebar;
\* nothing happens while no image is loaded.  op and args are the method of
\* the service that is called and the parameters passed to it, result the
\* processed image handed to the viewer (NoImage for None).
handle_processing_change ==
    /\ pc = "idle"
    /\ image # NoImage
    /\ \E mode \in ProcessingModes :
        /\ processing_mode' = mode
        /\ \/ /\ mode = "None"
              /\ op' = "none"
              /\ args' = NoArgs
              /\ result' = NoImage
           \/ /\ mode = "Grayscale"
              /\ op' = "to_grayscale"
              /\ args' = NoArgs
              /\ result' = to_grayscale(image)
           \/ /\ mode = "Edges (Sobel)"
              /\ op' = "segment_edges_sobel"
              /\ args' = NoArgs
              /\ result' = apply_binary_mask(image.h, image.w,
                                             sobel_edges(image, fp.sobelRoundUp, fp.err))
           \/ /\ mode = "Threshold (P-tile)"
              /\ op' = "threshold_ptile"
              /\ \E percent \in PtileSlider :
                   args' = [NoArgs EXCEPT !.p = get_ptile_p(percent)]
              /\ result' = ServiceResult(op', image, args')
           \/ /\ mode = "Threshold (iterative)"
              /\ op' = "threshold_iterative"
              /\ \E tol \in TolSlider, text \in Texts :
                   LET got == get_iterative_params(tol, text)
                   IN  args' = [NoArgs EXCEPT !.tol = got[1], !.max_iter = got[2]]
              /\ result' = ServiceResult(op', image, args')
           \/ /\ mode \in {"K-means (k=2)", "K-means (k=3)", "K-means (k=4)"}
              /\ op' = "kmeans_segment"
              /\ \E slider \in KMeansKSlider, text \in Texts :
                   LET got == get_kmeans_single_params(slider, text)
                   IN  args' = [NoArgs EXCEPT !.k = got[1], !.max_iter = got[2]]
              /\ result' = ServiceResult(op', image, args')
           \/ /\ mode = "K-means compare (2,3,4)"
              /\ op' = "kmeans_compare"
              /\ \E text \in Texts :
                   args' = [NoArgs EXCEPT !.values = get_kmeans_compare_ks(text)]
              /\ result' = ServiceResult(op', image, args')
           \/ /\ mode \in {"Threshold (adaptive)", "Adaptive compare (k)",
                           "Adaptive compare (C)", "Adaptive compare (T)"}
              /\ \E slider \in AdaptKSlider, C \in AdaptCSlider, T \in AdaptTSlider,
                    stat_text \in StatMenu :
                   LET got  == get_adaptive_params(slider, C, T, stat_text)
                       base == [NoArgs EXCEPT !.k = got[1], !.C = got[2], !.T = got[3],
                                              !.stat = got[4], !.polarity = got[5]]
                   IN  \/ /\ mode = "Threshold (adaptive)"
                          /\ op' = "adaptive_threshold"
                          /\ args' = base
                       \/ /\ mode = "Adaptive compare (k)"
                          /\ op' = "adaptive_compare_k"
                          /\ \E text \in Texts :
                               args' = [base EXCEPT !.k = 0,
                                                    !.values = get_adaptive_compare_ks(text)]
                       \/ /\ mode = "Adaptive compare (C)"
                          /\ op' = "adaptive_compare_C"
                          /\ \E text \in Texts :
                               args' = [base EXCEPT !.C = RInt(0),
                                                    !.values = get_adaptive_compare_Cs(text)]
                       \/ /\ mode = "Adaptive compare (T)"
                          /\ op' = "adaptive_compare_T"
                          /\ \E text \in Texts :
                               args' = [base EXCEPT !.T = RInt(0),
                                                    !.values = get_adaptive_compare_Ts(text)]
              /\ result' = ServiceResult(op', image, args')
    /\ viewer' = set_processed_image(viewer, result')
    /\ pc' = "done"
    /\ UNCHANGED <<image, field, thr, centroids, iters, fp, seen, bottom, last_key>>

\* ------------------------------------------------------------ application
\* The images files hold: ImageService.load_image gives an RGBA image.
LoadedImages == {RGBAImage(1, 2, <<<<255, 0, 0, 255>>, <<0, 0, 255, 128>>>>),
                 RGBAImage(1, 1, <<<<20, 20, 20, 0>>>>)}

\* What the sidebar's getters return while its parameter widgets are as
\* constructed: P at 30 %, tol 0.5 and "100", k = 2 and "50", "2,3,4", the
\* window 15 with C = 1.0, T = 0 and the mean, "3,5,9,15", "0.8,1.0,1.2" and
\* "-10,0,10".
SidebarBuilt ==
    [ptile |-> Rat(3, 10),
     iterative |-> <<Rat(1, 2), 100>>,
     kmeans |-> <<2, 50>>,
     kmeans_ks |-> <<2, 3, 4>>,
     adaptive |-> <<15, RInt(1), RInt(0), "mean", "bright">>,
     adaptive_ks |-> <<3, 5, 9, 15>>,
     adaptive_Cs |-> <<Rat(4, 5), RInt(1), Rat(6, 5)>>,
     adaptive_Ts |-> <<RInt(-10), RInt(0), RInt(10)>>]

\* The call of ProcessService that _apply_processing makes for a mode, with
\* the parameters of SidebarBuilt: its method ("none" when the mode is not in
\* the dispatch table) and its arguments.
ModeCall(mode) ==
    LET sb   == SidebarBuilt
        base == [NoArgs EXCEPT !.k = sb.adaptive[1], !.C = sb.adaptive[2],
                               !.T = sb.adaptive[3], !.stat = sb.adaptive[4],
                               !.polarity = sb.adaptive[5]]
    IN  CASE mode = "Grayscale" -> [op |-> "to_grayscale", args |-> NoArgs]
          [] mode = "Edges (Sobel)" -> [op |-> "segment_edges_sobel", args |-> NoArgs]
          [] mode = "Threshold (P-tile)" ->
                [op |-> "threshold_ptile", args |-> [NoArgs EXCEPT !.p = sb.ptile]]
          [] mode = "Threshold (iterative)" ->
                [op |-> "threshold_iterative",
                 args |-> [NoArgs EXCEPT !.tol = sb.iterative[1],
                                         !.max_iter = sb.iterative[2]]]
          [] mode \in {"K-means (k=2)", "K-means (k=3)", "K-means (k=4)"} ->
                [op |-> "kmeans_segment",
                 args |-> [NoArgs EXCEPT !.k = sb.kmeans[1], !.max_iter = sb.kmeans[2]]]
          [] mode = "K-means compare (2,3,4)" ->
                [op |-> "kmeans_compare", args |-> [NoArgs EXCEPT !.values = sb.kmeans_ks]]
          [] mode = "Threshold (adaptive)" -> [op |-> "adaptive_threshold", args |-> base]
          [] mode = "Adaptive compare (k)" ->
                [op |-> "adaptive_compare_k",
                 args |-> [base EXCEPT !.k = 0, !.values = sb.adaptive_ks]]
          [] mode = "Adaptive compare (C)" ->
                [op |-> "adaptive_compare_C",
                 args |-> [base EXCEPT !.C = RInt(0), !.values = sb.adaptive_Cs]]
          [] mode = "Adaptive compare (T)" ->
                [op |-> "adaptive_compare_T",
                 args |-> [base EXCEPT !.T = RInt(0), !.values = sb.adaptive_Ts]]
          [] OTHER -> [op |-> "none", args |-> NoArgs]

\* Whether kmeans_segment(img, k, max_iter >= 1) raises: it does in its first
\* pass or never, since only a one-sample image makes np.random.choice fail
\* and such an image leaves a cluster empty at once.
kmeans_segment_raises(img, k) ==
    kmeans_pass_raises(image_to_gray_np(img), k, linspace_0_255(k))

\* The ways a call that runs kmeans_segment for every k of counts may end:
\* Raised when one of the runs raises, else the image returned.
kmeans_call_outcomes(call, src, counts) ==
    IF \E k \in counts : kmeans_segment_raises(src, k)
    THEN {Raised}
    ELSE {Returned(ServiceResult(call.op, src, call.args))}

\* The ways the service call of _apply_processing(mode) on src may end: the
\* processed image it returns (NoImage for None) or Raised.  The k-means
\* calls fail where kmeans_segment does; the pixels of the thresholds, of
\* k-means and of the grids are not computed here.
apply_processing(mode, src) ==
    LET call == ModeCall(mode)
    IN  CASE call.op = "none" -> {Returned(NoImage)}
          [] call.op = "to_grayscale" -> {Returned(to_grayscale(src))}
          [] call.op = "segment_edges_sobel" ->
                {Returned(apply_binary_mask(src.h, src.w,
                                            sobel_edges(src, fp.sobelRoundUp, fp.err)))}
          [] call.op = "kmeans_segment" -> kmeans_call_outcomes(call, src, {call.args.k})
          [] call.op = "kmeans_compare" ->
                kmeans_call_outcomes(call, src,
                    {Max2(2, call.args.values[i]) : i \in 1..Len(call.args.values)})
          [] OTHER -> {Returned(ServiceResult(call.op, src, call.args))}

\* _handle_open_file.  Either nothing is loaded: the dialog fails or is
\* cancelled (the handler returns) or load_image raises.  Or the image becomes
\* the current one and the viewer's original, the current mode is applied to
\* it, the zoom is set to fit and the bottom bar told; an exception of the
\* service leaves the handler after set_image.
handle_open_file ==
    /\ pc = "idle"
    /\ \/ /\ pc' \in {"done", "raised"}
          /\ UNCHANGED <<op, image, args, result, viewer, bottom>>
       \/ \E new \in LoadedImages, canvas \in CanvasSizes :
            \E out \in apply_processing(processing_mode, new) :
                /\ image' = new
                /\ op' = ModeCall(processing_mode).op
                /\ args' = ModeCall(processing_mode).args
                /\ result' = out.img
                /\ IF out.raised
                   THEN /\ viewer' = set_image(viewer, new, canvas)
                        /\ bottom' = bottom
                        /\ pc' = "raised"
                   ELSE /\ viewer' = set_zoom_to_fit(
                                        set_processed_image(set_image(viewer, new, canvas),
                                                            out.img), canvas)
                        /\ bottom' = bottom_set_zoom_percent(bottom, get_zoom_percent(viewer'))
                        /\ pc' = "done"
    /\ UNCHANGED <<field, thr, centroids, iters, fp, seen, processing_mode, last_key>>

\* Sidebar._emit_processing_change with _handle_processing_change and
\* _apply_processing, the sidebar's parameters as constructed: the mode is
\* set; with an image loaded it is applied and the viewer given the result,
\* unless the service raises.
emit_processing_change ==
    /\ pc = "idle"
    /\ \E mode \in ProcessingModes :
        /\ processing_mode' = mode
        /\ IF image = NoImage
           THEN /\ pc' = "done"
                /\ UNCHANGED <<op, args, result, viewer>>
           ELSE \E out \in apply_processing(mode, image) :
                    /\ op' = ModeCall(mode).op
                    /\ args' = ModeCall(mode).args
                    /\ result' = out.img
                    /\ IF out.raised
                       THEN /\ viewer' = viewer
                            /\ pc' = "raised"
                       ELSE /\ viewer' = set_processed_image(viewer, out.img)
                            /\ pc' = "done"
    /\ UNCHANGED <<image, field, thr, centroids, iters, fp, seen, bottom, last_key>>

\* BottomBar._on_compare_mode with _handle_compare_mode_change
handle_compare_mode_change ==
    /\ pc = "idle"
    /\ \E mode \in CompareMenu : viewer' = set_compare_mode(viewer, mode)
    /\ UNCHANGED <<pc, op, image, args, field, thr, centroids, iters, result, fp, seen,
                   processing_mode, bottom, last_key>>

\* <KeyPress-space> on the canvas
KeyPress_space ==
    /\ pc = "idle"
    /\ viewer' = on_space_down(viewer)
    /\ last_key' = "press"
    /\ UNCHANGED <<pc, op, image, args, field, thr, centroids, iters, result, fp, seen,
                   processing_mode, bottom>>

\* <KeyRelease-space> on the canvas: the key was down.
KeyRelease_space ==
    /\ pc = "idle"
    /\ last_key = "press"
    /\ viewer' = on_space_up(viewer)
    /\ last_key' = "release"
    /\ UNCHANGED <<pc, op, image, args, field, thr, centroids, iters, result, fp, seen,
                   processing_mode, bottom>>

\* The positions the zoom slider is dragged to (10 to 400 in steps of 1).
ZoomSlider == {10, 150, 400}

\* BottomBar._on_slider_change with _handle_zoom_change: the slider is where
\* it was dragged to, the label shows its value, and the viewer is told.
on_slider_change ==
    /\ pc = "idle"
    /\ \E value \in ZoomSlider :
        /\ bottom' = [bottom EXCEPT !.zoom_slider = value, !.zoom_value = value]
        /\ viewer' = set_zoom_percent(viewer, value)
    /\ UNCHANGED <<pc, op, image, args, field, thr, centroids, iters, result, fp, seen,
                   processing_mode, last_key>>

\* BottomBar._on_preset_click: "Fit" goes to _handle_zoom_fit, a percent to
\* _handle_zoom_preset.  The clicked button is the one selected.
on_preset_click ==
    /\ pc = "idle"
    /\ \E value \in {Fit} \cup Presets :
        IF value = Fit
        THEN \E canvas \in CanvasSizes :
                /\ viewer' = set_zoom_to_fit(viewer, canvas)
                /\ bottom' = bottom_set_zoom_percent([bottom EXCEPT !.preset_buttons = Fit],
                                                     get_zoom_percent(viewer'))
        ELSE /\ viewer' = set_zoom_percent(viewer, value)
             /\ bottom' = [bottom EXCEPT !.preset_buttons = value]
    /\ UNCHANGED <<pc, op, image, args, field, thr, centroids, iters, result, fp, seen,
                   processing_mode, last_key>>

\* The factors of one notch of the wheel: 1.1 up, 1.0 / 1.1 down.
WheelFactors == {Rat(11, 10), Rat(10, 11)}

\* _on_mouse_wheel and _on_mouse_wheel_linux with _zoom_at_point and
\* _handle_viewer_zoom_changed: with an image shown the scale is multiplied
\* and the bottom bar told, unless the scale stays where it is.
on_mouse_wheel ==
    /\ pc = "idle"
    /\ viewer.original_image # NoImage
    /\ \E factor \in WheelFactors :
        \E new_scale \in {zoomed_scale(viewer, factor)} :
            /\ new_scale.n <= MaxScaleTerm
            /\ new_scale.d <= MaxScaleTerm
            /\ IF WithinMillionth(new_scale, viewer.scale_factor)
               THEN UNCHANGED <<viewer, bottom>>
               ELSE /\ viewer' = [viewer EXCEPT !.scale_factor = new_scale]
                    /\ bottom' = bottom_set_zoom_percent(bottom, get_zoom_percent(viewer'))
    /\ UNCHANGED <<pc, op, image, args, field, thr, centroids, iters, result, fp, seen,
                   processing_mode, last_key>>

\* ------------------------------------------------------------ construction
\* The roundings of a build, where the real-number model has a tie: roundUp
\* for the variance ties of a direct call of _otsu_threshold, sobelRoundUp for
\* those of the call made by segment_edges_sobel, err for the products of
\* segment_edges_sobel.  FloatExact is the build that rounds nothing.
FloatExact == [roundUp |-> FALSE, sobelRoundUp |-> FALSE, err |-> 0]

\* Roundings are told apart only by the results they give for img; of those
\* that give the same results the one nearest to FloatExact stands for all.
otsu_roundings(img) ==
    IF otsu_threshold(to_u8(image_to_gray_np(img)), TRUE)
         # otsu_threshold(to_u8(image_to_gray_np(img)), FALSE)
    THEN BOOLEAN
    ELSE {FALSE}

sobel_roundings(img) ==
    LET rank(f) == (IF f[1] THEN 3 ELSE 0) + (IF f[2] = 0 THEN 0 ELSE IF f[2] = 1 THEN 1 ELSE 2)
        first(outs) == {p[1] : p \in {q \in outs :
                            \A o \in outs : o[2] = q[2] => rank(q[1]) <= rank(o[1])}}
    IN  CHOOSE fs \in {first(outs) : outs \in
                {{<<f, sobel_edges(img, f[1], f[2])>> : f \in BOOLEAN \X FloatErr}}} : TRUE

FloatOutcomes(img) ==
    {[roundUp |-> a, sobelRoundUp |-> s[1], err |-> s[2]] :
        a \in otsu_roundings(img), s \in sobel_roundings(img)}

\* No call recorded, and none to be.
NotWatching == [watching |-> FALSE]

\* No call recorded yet; the first one to end will be.
NothingSeen == [watching |-> TRUE, recorded |-> FALSE]

\* The state after construction: an image to work on and no call running.
\* The roundings are those of one build, whichever it is.
InitCall ==
    /\ pc = "idle"
    /\ op = "none"
    /\ args = NoArgs
    /\ field = <<>>
    /\ thr = RInt(0)
    /\ centroids = <<>>
    /\ iters = 0
    /\ result = NoImage

\* The widgets as constructed: no mode chosen, nothing shown, the zoom at
\* 100 %, no key pressed yet.
InitWidgets ==
    /\ processing_mode = "None"
    /\ viewer = ViewerBuilt
    /\ bottom = BottomBuilt
    /\ last_key = "none"

Init ==
    /\ InitCall
    /\ InitWidgets
    /\ image \in Images
    /\ fp \in FloatOutcomes(image)
    /\ seen = NotWatching

\* ------------------------------------------------------------ calls end
\* The call has returned (or raised): the service keeps nothing of it, and
\* the caller may call again.
Return ==
    /\ pc \in {"done", "raised"}
    /\ pc' = "idle"
    /\ op' = "none"
    /\ args' = NoArgs
    /\ field' = <<>>
    /\ thr' = RInt(0)
    /\ centroids' = <<>>
    /\ iters' = 0
    /\ result' = NoImage
    /\ seen' = IF seen = NothingSeen
               THEN [watching |-> TRUE, recorded |-> TRUE, pc |-> pc, op |-> op,
                     args |-> args, field |-> field, thr |-> thr, result |-> result]
               ELSE seen
    /\ UNCHANGED <<image, fp, widgets>>

NextPtile == threshold_ptile \/ Return

NextOtsu == otsu_threshold_call \/ Return

SpecOtsu == Init /\ [][NextOtsu]_vars

NextIterative ==
    \/ threshold_iterative_start
    \/ threshold_iterative_step
    \/ threshold_iterative_finish
    \/ Return

SpecIterative == Init /\ [][NextIterative]_vars

\* The same calls on the images of Init and on a large one: a white strip of
\* 5 x 13159 samples, whose sum 65795 * 255 = 2^24 + 509 is not a float32.
\* (No operation of NextIterative reads the roundings of fp.)
WhiteStrip == LImage(5, 13159, [i \in 1..65795 |-> 255])

InitIterativeLarge ==
    /\ InitCall
    /\ InitWidgets
    /\ \/ image \in Images /\ fp \in FloatOutcomes(image)
       \/ image = WhiteStrip /\ fp = FloatExact
    /\ seen = NotWatching

SpecIterativeLarge == InitIterativeLarge /\ [][NextIterative]_vars

\* A call that has begun goes on: nothing outside the call can stop its loop.
\* This is weak fairness of the call's own steps, WF_vars(step \/ finish),
\* written out: one of the two is enabled exactly while the call runs, and
\* every step that begins while the call runs is one of the two.
IterativeRunning == pc \in {"iter_loop", "iter_exit"}

SpecIterativeRuns ==
    /\ SpecIterative
    /\ \/ []<>(~IterativeRunning)
       \/ []<><<IterativeRunning>>_vars

NextKMeans ==
    \/ kmeans_segment_start
    \/ kmeans_segment_step
    \/ kmeans_segment_finish
    \/ Return

SpecKMeans == Init /\ [][NextKMeans]_vars

\* A call that has begun goes on (weak fairness of the call's own steps, as
\* for SpecIterativeRuns).
KMeansRunning == pc \in {"kmeans_loop", "kmeans_exit"}

SpecKMeansRuns ==
    /\ SpecKMeans
    /\ \/ []<>(~KMeansRunning)
       \/ []<><<KMeansRunning>>_vars

NextSobel == segment_edges_sobel \/ otsu_threshold_call \/ Return

SpecSobel == Init /\ [][NextSobel]_vars

SpecPtile == Init /\ [][NextPtile]_vars

NextAdaptive == adaptive_threshold \/ Return

NextCompare ==
    \/ kmeans_compare
    \/ adaptive_compare_k
    \/ adaptive_compare_C
    \/ adaptive_compare_T
    \/ Return

SpecCompare == Init /\ [][NextCompare]_vars

SpecAdaptive == Init /\ [][NextAdaptive]_vars

\* The three sweeps of the adaptive threshold on their own.
NextSweeps ==
    \/ adaptive_compare_k
    \/ adaptive_compare_C
    \/ adaptive_compare_T
    \/ Return

SpecSweeps == Init /\ [][NextSweeps]_vars

Next ==
    \/ to_grayscale_call
    \/ otsu_threshold_call
    \/ segment_edges_sobel
    \/ threshold_ptile
    \/ threshold_iterative_start
    \/ threshold_iterative_step
    \/ threshold_iterative_finish
    \/ kmeans_segment_start
    \/ kmeans_segment_step
    \/ kmeans_segment_finish
    \/ adaptive_threshold
    \/ Return

Spec == Init /\ [][Next]_vars

\* Calls made again: the first call to end is recorded, and every later call
\* can be set against it.  Two images are enough: one on which Otsu has a
\* tie, and one whose Sobel products fall on a boundary, whose clusters are
\* never empty for k = 2 and whose middle cluster is empty for k = 3.
RepeatImages == {Symmetric, LImage(1, 3, <<0, 20, 200>>)}

InitRepeat ==
    /\ InitCall
    /\ InitWidgets
    /\ image \in RepeatImages
    /\ fp \in FloatOutcomes(image)
    /\ seen = NothingSeen

SpecRepeat == InitRepeat /\ [][Next]_vars

\* The controller at work on an image just opened with no mode chosen, the
\* sidebar in any condition: one event is handled.
InitController ==
    /\ InitCall
    /\ image \in LoadedImages
    /\ fp \in FloatOutcomes(image)
    /\ seen = NotWatching
    /\ processing_mode = "None"
    /\ viewer \in {set_image(ViewerBuilt, image, canvas) : canvas \in CanvasSizes}
    /\ bottom = bottom_set_zoom_percent(BottomBuilt, get_zoom_percent(viewer))
    /\ last_key = "none"

NextController == handle_processing_change

\* The application from its construction, the sidebar's parameters left as
\* they are: files are opened, modes and compare modes chosen and the space
\* key pressed and released.
InitApplication ==
    /\ InitCall
    /\ InitWidgets
    /\ image = NoImage
    /\ fp \in UNION {FloatOutcomes(img) : img \in LoadedImages}
    /\ seen = NotWatching

NextDisplay ==
    \/ handle_open_file
    \/ emit_processing_change
    \/ handle_compare_mode_change
    \/ KeyPress_space
    \/ KeyRelease_space
    \/ Return

SpecDisplay == InitApplication /\ [][NextDisplay]_vars

\* The application from its construction: files are opened and the zoom
\* changed by the slider, the presets, Fit and the wheel.
NextZoom ==
    \/ handle_open_file
    \/ on_slider_change
    \/ on_preset_click
    \/ on_mouse_wheel
    \/ Return

SpecZoom == InitApplication /\ [][NextZoom]_vars

SpecController == InitController /\ [][NextController]_vars

\* ------------------------------------------------------------ claims: P-tile
\* The samples the algorithms read: the uint8 grayscale array of the input.
Samples == to_u8(image_to_gray_np(image))

\* count(I >= t) over the input's samples.
CountAtLeast(t) == Cardinality({i \in 1..Len(Samples) : Samples[i] >= t})

\* The number of foreground (255) samples of the returned image.
Foreground == Cardinality({i \in 1..Len(result.bands[1]) : result.bands[1][i] = 255})

PtileReturned == pc = "done" /\ op = "threshold_ptile"

PInUnitInterval == RLeq(RInt(0), args.p) /\ RLeq(args.p, RInt(1))

\* C1 (as claimed): for a non-empty image and p in [0,1], the T chosen by
\* threshold_ptile has count(I >= T) >= round(p*N), so the returned mask has
\* at least round(p*N) foreground samples.
C1_PtileAreaGuarantee ==
    (PtileReturned /\ PInUnitInterval) =>
        /\ CountAtLeast(thr.n) >= RoundHalfEven(args.p.n * Len(Samples), args.p.d)
        /\ Foreground >= RoundHalfEven(args.p.n * Len(Samples), args.p.d)

\* C2 (as claimed): for a non-empty image and p in [0,1], T is the highest
\* level whose foreground count reaches the target: T = 255 or
\* count(I >= T+1) < round(p*N).
C2_PtileTightness ==
    (PtileReturned /\ PInUnitInterval) =>
        \/ thr.n = 255
        \/ CountAtLeast(thr.n + 1) < RoundHalfEven(args.p.n * Len(Samples), args.p.d)

\* ------------------------------------------------------------ claims: Otsu
OtsuReturned == pc = "done" /\ op = "_otsu_threshold"

\* The mask rule segment_edges_sobel applies to the Otsu threshold t.
EdgeRule(v, t) == v >= t

\* C3 (as claimed): for the field with 8 samples at 0 and 8 at 255,
\* _otsu_threshold returns T in [1,254] and the rule I >= T marks exactly the
\* 255-samples as foreground.
C3_OtsuCheckerboard ==
    (OtsuReturned /\ image = Checkerboard /\ field = image_to_gray_np(Checkerboard)) =>
        /\ thr.n \in 1..254
        /\ \A i \in 1..Len(field) : EdgeRule(field[i], thr.n) <=> field[i] = 255

\* The reference definition of the between-class variance at level t, from
\* the samples themselves: omega(t) = count(I <= t)/N, mu(t) = sum(I <= t)/N,
\* mu_T = sum(I)/N and the variance (mu_T*omega - mu)^2 / (omega*(1 - omega)),
\* 0 where the denominator is 0.  As a fraction a/b, scaled by N^2 at every t.
RefSigma(t) ==
    LET N  == Len(field)
        W  == Cardinality({i \in 1..N : field[i] <= t})
        M  == SumSeq(SelectCmp(field, RInt(t), FALSE))
        MT == SumSeq(field)
        x  == MT * W - M * N
    IN  IF W = 0 \/ W = N THEN [a |-> 0, b |-> 1] ELSE [a |-> x * x, b |-> W * (N - W)]

RefSigmaLess(t, u) == FracLess(RefSigma(t).a, RefSigma(t).b, RefSigma(u).a, RefSigma(u).b)

\* C4: for every field of integer intensities, _otsu_threshold returns a
\* level in 0..255 that maximises the between-class variance, and no smaller
\* level reaches that maximum; for a field with no samples it returns 0.
C4_OtsuReference ==
    OtsuReturned =>
        /\ thr.d = 1
        /\ thr.n \in 0..255
        /\ Len(field) = 0 => thr.n = 0
        /\ Len(field) > 0 =>
            \A u \in 0..255 :
                /\ ~RefSigmaLess(thr.n, u)
                /\ u < thr.n => RefSigmaLess(u, thr.n)

\* ------------------------------------------------------------ claims: masks
MaskOps == {"segment_edges_sobel", "threshold_ptile", "threshold_iterative",
            "adaptive_threshold"}

\* C5: every image returned by segment_edges_sobel, threshold_ptile,
\* threshold_iterative or adaptive_threshold is a single-band image of the
\* input's width and height whose samples are all 0 or 255.
C5_BinaryMask ==
    (pc = "done" /\ op \in MaskOps) =>
        /\ result.mode = "L"
        /\ result.h = image.h
        /\ result.w = image.w
        /\ Len(result.bands[1]) = image.h * image.w
        /\ \A i \in 1..Len(result.bands[1]) : result.bands[1][i] \in {0, 255}

\* C5's case: a mask with both foreground and background samples, returned
\* for a colour image by adaptive_threshold called with an even window.
C5_Witness ==
    /\ pc = "done"
    /\ op = "adaptive_threshold"
    /\ image.mode = "RGBA"
    /\ args.k = 4
    /\ \E i, j \in 1..Len(result.bands[1]) :
          result.bands[1][i] = 255 /\ result.bands[1][j] = 0

\* ------------------------------------------------------------ claims: errors
\* C6 (as claimed): no call of a ProcessService operation on a non-empty image
\* raises, whatever k, max_iter, window size and p it is given.
C6_NeverRaises == pc # "raised"

\* The images kmeans_segment(img, k) may return when its loop makes exactly
\* one pass (max_iter = 1): one for every draw of np.random.choice, none when
\* that call raises.
kmeans_one_pass(img, k) ==
    LET flat   == image_to_gray_np(img)
        cs0    == linspace_0_255(k)
        labels == kmeans_labels(flat, cs0)
        empty  == {ci \in 1..k : Len(kmeans_pts(flat, labels, ci)) = 0}
    IN  IF k <= 1 \/ (empty # {} /\ Len(flat) = 1) THEN {}
        ELSE {kmeans_posterize(img, cs) :
                cs \in {f \in [1..k -> UNION {kmeans_new_c(flat, labels, ci) : ci \in 1..k}] :
                            \A ci \in 1..k : f[ci] \in kmeans_new_c(flat, labels, ci)}}

\* The image threshold_iterative(img) returns when its loop makes exactly one
\* pass (max_iter = 1).
iterative_one_pass(img) ==
    LET arr == image_to_gray_np(img)
        T0  == Mean(arr)
        g1  == SelectCmp(arr, T0, FALSE)
        g2  == SelectCmp(arr, T0, TRUE)
        T1  == IF Len(g1) = 0 \/ Len(g2) = 0 THEN T0 ELSE iterative_T_new(g1, g2)
    IN  apply_binary_mask(img.h, img.w, iterative_mask(arr, T1))

\* C7 (as claimed): threshold_iterative and kmeans_segment called with
\* max_iter <= 0 return what the same call returns with max_iter = 1.
C7_MaxIterFlooredAtOne ==
    /\ (pc = "done" /\ op = "threshold_iterative" /\ args.max_iter <= 0) =>
            result = iterative_one_pass(image)
    /\ (pc = "done" /\ op = "kmeans_segment" /\ args.max_iter <= 0) =>
            result \in kmeans_one_pass(image, args.k)

\* ------------------------------------------------------------ claims: iterative
\* C8: on a field with half of its samples at 10 and half at 240,
\* threshold_iterative with tol = 0.5 and max_iter = 100 returns with
\* 10 < T < 240, and the mask is foreground exactly on the 240-samples.
C8_IterativeBimodal ==
    (/\ pc = "done"
     /\ op = "threshold_iterative"
     /\ image \in Bimodal
     /\ args.tol = Rat(1, 2)
     /\ args.max_iter = 100) =>
        /\ RLess(RInt(10), thr)
        /\ RLess(thr, RInt(240))
        /\ \A i \in 1..Len(Samples) : result.bands[1][i] = 255 <=> Samples[i] = 240

\* C8's case: the call has returned for a 2x2 bimodal field after refining T.
C8_Witness ==
    /\ pc = "done"
    /\ op = "threshold_iterative"
    /\ image = LImage(2, 2, <<240, 10, 10, 240>>)
    /\ args.tol = Rat(1, 2)
    /\ args.max_iter = 100
    /\ iters >= 1
    /\ Foreground = 2

\* ------------------------------------------------------------ claims: k-means
KMeansReturned == pc = "done" /\ op = "kmeans_segment"

\* A field of two clusters: every sample is 20 or 200, and both occur.
TwoClusters ==
    /\ \A i \in 1..Len(Samples) : Samples[i] \in {20, 200}
    /\ \E i, j \in 1..Len(Samples) : Samples[i] = 20 /\ Samples[j] = 200

\* |c - v| <= 1.0
Within1(c, v) == RLeq(RAbs(RSub(c, RInt(v))), RInt(1))

\* C9: for k = 2 and a field of two clusters, at 20 and at 200, a call of
\* kmeans_segment whose loop runs (max_iter >= 1, the default 50 included)
\* ends with one centroid within 1.0 of 20 and the other within 1.0 of 200,
\* and every sample of the returned image is the value of its own cluster.
C9_KMeansRecovery ==
    (KMeansReturned /\ args.k = 2 /\ args.max_iter >= 1 /\ TwoClusters) =>
        /\ \E lo, hi \in 1..2 :
              lo # hi /\ Within1(centroids[lo], 20) /\ Within1(centroids[hi], 200)
        /\ \A i \in 1..Len(Samples) : result.bands[1][i] = Samples[i]

\* C9's case: the call has returned for a 2x2 field of two clusters after the
\* loop stopped on unchanged centroids.
C9_Witness ==
    /\ KMeansReturned
    /\ args.k = 2
    /\ args.max_iter = 50
    /\ iters = 2
    /\ TwoClusters
    /\ Len(Samples) = 4

\* C10 (as claimed): every sample of the image kmeans_segment returns is the
\* final centroid of the sample's cluster rounded to the nearest integer
\* (either neighbour when the centroid lies half-way).
C10_KMeansRoundsToNearest ==
    KMeansReturned =>
        \A i \in 1..Len(Samples) :
            LET c == centroids[kmeans_label(Samples[i], centroids)]
            IN  RLeq(RAbs(RSub(RInt(result.bands[1][i]), c)), Rat(1, 2))

\* ------------------------------------------------------------ claims: adaptive
AdaptiveReturned == pc = "done" /\ op = "adaptive_threshold"

\* The input is a field of one constant value.
Uniform == \A i \in 1..Len(Samples) : Samples[i] = Samples[1]

CompareOps == {"kmeans_compare", "adaptive_compare_k", "adaptive_compare_C",
               "adaptive_compare_T"}

CompareReturned == pc = "done" /\ op \in CompareOps

\* Three labeled 10x10 panels.
ThreePanels10 ==
    [i \in 1..3 |-> <<Label("k", i + 1), LImage(10, 10, [j \in 1..100 |-> 255])>>]

\* C12: a grid of n >= 1 panels of the input's size w x h has width
\* n*w + 12*(n-1) and height h + 24; panel i (from 0, in list order) is pasted
\* at x = i*(w+12), y = 24; panels do not overlap and lie inside the canvas;
\* for kmeans_compare and adaptive_compare_k/C/T.  Three 10x10 panels give a
\* 54 x 34 canvas.
C12_GridGeometry ==
    /\ (CompareReturned /\ Len(args.values) >= 1) =>
          LET n == Len(args.values)
              w == image.w
              h == image.h
              P == result.panels
          IN  /\ result.w = n * w + 12 * (n - 1)
              /\ result.h = h + 24
              /\ Len(P) = n
              /\ \A i \in 1..n :
                    /\ P[i].img.w = w /\ P[i].img.h = h
                    /\ P[i].x = (i - 1) * (w + 12) /\ P[i].y = 24
                    /\ P[i].x >= 0 /\ P[i].x + w <= result.w
                    /\ P[i].y >= 0 /\ P[i].y + h <= result.h
              /\ \A i, j \in 1..n : i < j => P[i].x + w <= P[j].x
    /\ compose_labeled_row(ThreePanels10).w = 54
    /\ compose_labeled_row(ThreePanels10).h = 34
    /\ kmeans_compare_canvas(ThreePanels10).w = 54
    /\ kmeans_compare_canvas(ThreePanels10).h = 34

\* C12's case: a grid of three panels returned for an image three samples wide.
C12_Witness ==
    /\ pc = "done"
    /\ op = "adaptive_compare_k"
    /\ Len(args.values) = 3
    /\ image.w = 3
    /\ Len(result.panels) = 3
    /\ result.panels[3].x = 30

\* C13 (as claimed): every compare operation called with an empty list
\* returns the 1x1 placeholder image of the grid composer.
C13_EmptyListPlaceholder ==
    (CompareReturned /\ Len(args.values) = 0) => result = compose_labeled_row(<<>>)

\* The call that has just ended is the recorded call made again: the same
\* operation with the same parameters on the same image (the image never
\* changes), and for _otsu_threshold the same field.
SameCallAgain ==
    /\ seen.watching
    /\ seen.recorded
    /\ pc \in {"done", "raised"}
    /\ seen.op = op
    /\ seen.args = args
    /\ op = "_otsu_threshold" => seen.field = field

\* The call is kmeans_segment, and some run of it re-seeds an empty cluster.
MayReseed == op = "kmeans_segment" /\ kmeans_reseeds(image, args.k, args.max_iter)

C14_WitnessOtsu ==
    /\ SameCallAgain
    /\ op = "_otsu_threshold"
    /\ image = Symmetric
    /\ field # <<>>

C14_WitnessReseed ==
    /\ SameCallAgain
    /\ MayReseed
    /\ seen.result # result

\* The documented ranges of the integer parameters.
MaxIterRange(mi) == 1 <= mi /\ mi <= 10000

WindowRange(k) == k % 2 = 1 /\ 3 <= k /\ k <= 51

ClusterRange(k) == 2 <= k /\ k <= 64

\* C15: whatever is typed into the sidebar, every integer parameter the
\* controller passes to the service lies in its documented range: max_iter in
\* [1, 10000], every window size odd and in [3, 51], every cluster count in
\* [2, 64], the elements of the compare lists included.
C15_ParametersValidated ==
    pc = "done" =>
        /\ op \in {"threshold_iterative", "kmeans_segment"} => MaxIterRange(args.max_iter)
        /\ op = "kmeans_segment" => ClusterRange(args.k)
        /\ op = "kmeans_compare" =>
              \A i \in 1..Len(args.values) : ClusterRange(args.values[i])
        /\ op \in {"adaptive_threshold", "adaptive_compare_C", "adaptive_compare_T"} =>
              WindowRange(args.k)
        /\ op = "adaptive_compare_k" =>
              \A i \in 1..Len(args.values) : WindowRange(args.values[i])

\* The part of C15 about the single modes, which the getters do enforce.
C15_SingleModesValidated ==
    pc = "done" =>
        /\ op \in {"threshold_iterative", "kmeans_segment"} => MaxIterRange(args.max_iter)
        /\ op = "kmeans_segment" => ClusterRange(args.k)
        /\ op \in {"adaptive_threshold", "adaptive_compare_C", "adaptive_compare_T"} =>
              WindowRange(args.k)

\* The alpha channel of an image that has one.
HasAlpha(img) == img.mode \in {"RGBA", "LA"}

AlphaOf(img) == img.bands[Len(img.bands)]

\* C16: the grayscale image the controller hands to the viewer in the mode
\* "Grayscale" keeps the alpha channel of the loaded RGBA image: every output
\* pixel has the alpha of the same pixel of the source.
C16_DisplayedGrayscaleKeepsAlpha ==
    (pc = "done" /\ op = "to_grayscale") =>
        /\ HasAlpha(result)
        /\ AlphaOf(result) = AlphaOf(image)

\* ------------------------------------------------------------ claims: the iterative loop
REq(a, b) == RLeq(a, b) /\ RLeq(b, a)

RECURSIVE SampleSum(_)
SampleSum(idx) ==
    IF idx = {} THEN 0
    ELSE LET i == CHOOSE j \in idx : TRUE IN Samples[i] + SampleSum(idx \ {i})

\* The mean of the samples at the positions idx (idx not empty).
SampleMean(idx) == Rat(SampleSum(idx), Cardinality(idx))

\* G1 = {I <= T} and G2 = {I > T}, as sets of positions.
G1(T) == {i \in 1..Len(Samples) : RLeq(RInt(Samples[i]), T)}

G2(T) == {i \in 1..Len(Samples) : RLess(T, RInt(Samples[i]))}

\* What a step of threshold_iterative must be: the loop begins at the mean
\* intensity; a refinement step is taken only while fewer than max_iter were,
\* stops with T unchanged when G1 or G2 is empty, and else sets T to the
\* midpoint of the two group means and stops exactly when T moved by less
\* than tol; the mask returned is foreground exactly where I > T.
IterativeStepRule ==
    /\ (pc = "idle" /\ pc' = "iter_loop") =>
            REq(thr', SampleMean(1..Len(Samples))) /\ iters' = 0
    /\ (pc = "iter_loop" /\ iters' # iters) =>
            /\ iters' = iters + 1
            /\ iters' <= args.max_iter
            /\ IF G1(thr) = {} \/ G2(thr) = {}
               THEN thr' = thr /\ pc' = "iter_exit"
               ELSE /\ REq(RAdd(thr', thr'), RAdd(SampleMean(G1(thr)), SampleMean(G2(thr))))
                    /\ pc' = "iter_exit" <=> RLess(RAbs(RSub(thr', thr)), args.tol)
    /\ (pc \in {"iter_loop", "iter_exit"} /\ pc' = "done") =>
            /\ thr' = thr
            /\ pc = "iter_loop" => iters = Max2(0, args.max_iter)
            /\ \A i \in 1..Len(Samples) :
                  result'.bands[1][i] = (IF i \in G2(thr) THEN 255 ELSE 0)

SomeCentroidMoved(new, old) ==
    \E ci \in 1..Len(new) : RLess(Rat(1, 1000), RAbs(RSub(new[ci], old[ci])))

\* What an iteration of kmeans_segment must be: it is taken only while fewer
\* than max_iter were, and the loop is left after it exactly when no centroid
\* moved by more than 1e-3; the loop is otherwise left only after max_iter
\* iterations.
KMeansStepRule ==
    /\ (pc = "kmeans_loop" /\ iters' # iters) =>
            /\ iters' = iters + 1
            /\ iters' <= args.max_iter
            /\ pc' # "raised" =>
                  (pc' = "kmeans_exit" <=> ~SomeCentroidMoved(centroids', centroids))
    /\ (pc = "kmeans_loop" /\ iters' = iters /\ pc' # pc) => iters = args.max_iter

\* C18: kmeans_segment makes at most max_iter iterations, leaves the loop
\* early exactly at the first iteration in which no centroid moved by more
\* than 1e-3, and always terminates, re-seeding or not.
C18_KMeansTermination ==
    /\ [][KMeansStepRule]_vars
    /\ [](op = "kmeans_segment" => iters <= args.max_iter)
    /\ KMeansRunning ~> (pc \in {"done", "raised"})

\* C18's case: the loop was left early, after its second iteration.
C18_Witness ==
    /\ pc = "done"
    /\ op = "kmeans_segment"
    /\ args.max_iter = 50
    /\ iters = 2
    /\ args.k = 3

\* A call whose empty cluster was re-seeded with a new value in every
\* iteration, and which returned after max_iter of them.
C18_WitnessReseeded ==
    /\ pc = "done"
    /\ op = "kmeans_segment"
    /\ args.max_iter = 50
    /\ iters = 50

\* ------------------------------------------------------------ claims: k-means clusters
\* The centroid of cs with the smallest absolute difference from x, the
\* lowest index among equals.
AbsDiff(x, c) == RAbs(RSub(RInt(x), c))

Nearest(x, cs) ==
    CHOOSE ci \in 1..Len(cs) :
        /\ \A cj \in 1..Len(cs) : RLeq(AbsDiff(x, cs[ci]), AbsDiff(x, cs[cj]))
        /\ \A cj \in 1..(ci - 1) : ~REq(AbsDiff(x, cs[ci]), AbsDiff(x, cs[cj]))

\* The positions of the samples assigned to centroid ci of cs.
Cluster(ci, cs) == {i \in 1..Len(Samples) : Nearest(Samples[i], cs) = ci}

\* What an iteration of kmeans_segment (k >= 2) must do with its clusters:
\* it does not fail; a cluster with no samples gets the value of some sample
\* of the image, any other the mean of its samples.
ClusterUpdateRule ==
    (pc = "kmeans_loop" /\ iters' = iters + 1 /\ args.k >= 2) =>
        /\ pc' # "raised"
        /\ \A ci \in 1..args.k :
              IF Cluster(ci, centroids) = {}
              THEN \E i \in 1..Len(Samples) : REq(centroids'[ci], RInt(Samples[i]))
              ELSE REq(centroids'[ci], SampleMean(Cluster(ci, centroids)))

\* C19 (as claimed): in every iteration of kmeans_segment on an image of any
\* size, a single pixel included, an empty cluster is re-seeded with the
\* value of some sample and a non-empty one gets the mean of its samples,
\* and the operation does not fail.
C19_EmptyClusterReseeded == [][ClusterUpdateRule]_vars

\* The same for the images of two samples or more, where it holds.
C19_ReseededFromTwoSamples == [][Len(Samples) >= 2 => ClusterUpdateRule]_vars

\* What kmeans_segment (k >= 2) must do: start from the centroids
\* 255*i/(k-1), i = 0..k-1; in an iteration that does not fail, move the
\* centroid of every non-empty cluster to the mean of the samples nearest to
\* it and re-seed exactly the clusters no sample is nearest to; and return
\* every sample replaced by the centroid nearest to it (as uint8).
AssignmentRule ==
    /\ (pc = "idle" /\ pc' = "kmeans_loop" /\ args'.k >= 2) =>
            /\ Len(centroids') = args'.k
            /\ \A i \in 1..args'.k : REq(centroids'[i], Rat(255 * (i - 1), args'.k - 1))
    /\ (pc = "kmeans_loop" /\ iters' = iters + 1 /\ args.k >= 2 /\ pc' # "raised") =>
            \A ci \in 1..args.k :
                Cluster(ci, centroids) # {} =>
                    REq(centroids'[ci], SampleMean(Cluster(ci, centroids)))
    /\ (KMeansRunning /\ pc' = "done") =>
            \A i \in 1..Len(Samples) :
                LET c == centroids[Nearest(Samples[i], centroids)]
                IN  result'.bands[1][i] = c.n \div c.d

\* C20: kmeans_segment starts from k centroids evenly spaced over [0, 255],
\* both ends included, and in every iteration and in the final assignment
\* gives each sample to the centroid with the smallest absolute difference,
\* the lowest index among equals.
C20_KMeansAssignment == [][AssignmentRule]_vars

\* Some sample is equally near to two centroids, and no centroid is nearer.
SomeTie(cs) ==
    \E i \in 1..Len(Samples) : \E ci \in 1..Len(cs) :
        /\ ci # Nearest(Samples[i], cs)
        /\ REq(AbsDiff(Samples[i], cs[ci]), AbsDiff(Samples[i], cs[Nearest(Samples[i], cs)]))

\* C20's case: a call returned whose final assignment had to break a tie
\* (two centroids at the same distance from a sample), its centroids not all
\* equal.
C20_Witness ==
    /\ pc = "done"
    /\ op = "kmeans_segment"
    /\ iters >= 1
    /\ SomeTie(centroids)
    /\ \E ci, cj \in 1..Len(centroids) : ~REq(centroids[ci], centroids[cj])

\* ------------------------------------------------------------ claims: adaptive cut
\* The cut C*S + T at sample i of the call that has returned, S being the
\* local statistic field the call computed.
AdaptiveCut(i) == RAdd(RMul(args.C, field[i]), args.T)

C21_WitnessBright ==
    /\ AdaptiveReturned
    /\ args.polarity = "bright"
    /\ \E i, j \in 1..Len(Samples) :
          /\ REq(RInt(Samples[i]), AdaptiveCut(i))
          /\ result.bands[1][i] = 255
          /\ RLess(RInt(Samples[j]), AdaptiveCut(j))
          /\ result.bands[1][j] = 0

\* ------------------------------------------------------------ claims: window
\* The least odd integer that is at least 3 and at least k.
NormalWindow(k) ==
    CHOOSE w \in 3..(Max2(3, k) + 1) :
        /\ w >= k
        /\ w % 2 = 1
        /\ \A v \in 3..(w - 1) : ~(v >= k /\ v % 2 = 1)

\* The window sizes, in and out of range, for which the normalisation of the
\* comparison sweeps is compared with NormalWindow.
WindowsCompared == (0 - 3)..12

\* The statistic of kind over windows of win x win samples (win odd), from
\* the filters themselves: the box mean of radius (win-1)/2, the median, or
\* the mean of the least and the greatest sample.
WindowStat(kind, win) ==
    LET gray  == to_grayscale(image)
        plane == gray.bands[1]
        n     == gray.h * gray.w
    IN  IF kind = "median"
        THEN [i \in 1..n |-> RInt(MedianFilter(plane, gray.h, gray.w, win)[i])]
        ELSE IF kind = "midrange"
        THEN [i \in 1..n |-> Rat(MinFilter(plane, gray.h, gray.w, win)[i]
                                    + MaxFilter(plane, gray.h, gray.w, win)[i], 2)]
        ELSE [i \in 1..n |-> RInt(BoxBlur(plane, gray.h, gray.w, (win - 1) \div 2)[i])]

\* C22: whatever window size is given, _local_stat works on the window
\* max(3, k) made odd by adding 1 when even, an odd integer >= 3, and so do
\* adaptive_compare_k/C/T; a stat kind it does not know is computed exactly
\* as "mean"; the field has one entry per sample of the input.
C22_WindowNormalised ==
    /\ AdaptiveReturned =>
          LET win == NormalWindow(args.k)
          IN  /\ win % 2 = 1 /\ win >= 3 /\ win >= args.k /\ win <= Max2(3, args.k) + 1
              /\ Len(field) = image.h * image.w
              /\ args.stat = "mean" => field = WindowStat("mean", win)
              /\ args.stat = "Median" => field = WindowStat("median", win)
              /\ args.stat = "midrange" => field = WindowStat("midrange", win)
              /\ args.stat = "range" => field = WindowStat("mean", win)
    /\ \A k \in WindowsCompared :
          /\ local_stat_window(k) = NormalWindow(k)
          /\ compare_window(k) = NormalWindow(k)
          /\ local_stat_window(compare_window(k)) = compare_window(k)

\* C22's case: an even window given with a stat kind that is not known; the
\* field is the box mean over the next odd window, which differs from the
\* mean over the window of 3 and from the samples themselves.
C22_Witness ==
    /\ AdaptiveReturned
    /\ args.k = 4
    /\ args.stat = "range"
    /\ field = WindowStat("mean", 5)
    /\ field # WindowStat("mean", 3)
    /\ \E i \in 1..Len(field) : field[i] # RInt(Samples[i])

\* C22's case for a window below the least: 0 is taken as 3, with the median.
C22_WitnessSmall ==
    /\ AdaptiveReturned
    /\ args.k = 0
    /\ args.stat = "Median"
    /\ field = WindowStat("median", 3)
    /\ \E i \in 1..Len(field) : field[i] # RInt(Samples[i])

\* ------------------------------------------------------------ claims: sweeps
\* The mask of one run of the adaptive threshold on the input, from the rule
\* itself: window win (odd), scale C, offset T, statistic kind and polarity.
SweepRun(win, C, T, kind, polarity) ==
    LET S == WindowStat(kind, win)
        cut(i) == RAdd(RMul(C, S[i]), T)
        fg(i) == IF polarity = "dark"
                 THEN RLeq(RInt(Samples[i]), cut(i))
                 ELSE RLeq(cut(i), RInt(Samples[i]))
    IN  LImage(image.h, image.w, [i \in 1..Len(Samples) |-> IF fg(i) THEN 255 ELSE 0])

\* The run the sweep that has returned owes to the i-th element of its list:
\* only the swept parameter is taken from the list.
SweepOwed(i) ==
    IF op = "adaptive_compare_k"
    THEN SweepRun(NormalWindow(args.values[i]), args.C, args.T, args.stat, args.polarity)
    ELSE IF op = "adaptive_compare_C"
    THEN SweepRun(NormalWindow(args.k), args.values[i], args.T, args.stat, args.polarity)
    ELSE SweepRun(NormalWindow(args.k), args.C, args.values[i], args.stat, args.polarity)

SweepReturned ==
    pc = "done" /\ op \in {"adaptive_compare_k", "adaptive_compare_C", "adaptive_compare_T"}

\* C23: the grid of adaptive_compare_k, adaptive_compare_C and
\* adaptive_compare_T has one panel per element of the list, in list order,
\* and the i-th panel is the adaptive threshold of the input with the i-th
\* element as k, C or T respectively and the caller's values for every other
\* parameter, stat and polarity included; an empty list gives no panel.
C23_SweepsVaryOne ==
    SweepReturned =>
        IF Len(args.values) = 0
        THEN result = compose_labeled_row(<<>>)
        ELSE /\ Len(result.panels) = Len(args.values)
             /\ Len(result.labels) = Len(args.values)
             /\ \A i \in 1..Len(args.values) :
                   /\ result.panels[i].img = SweepOwed(i)
                   /\ \A j \in 1..Len(args.values) :
                         i < j => result.panels[i].x < result.panels[j].x

\* C23's case: a sweep over two values of C under dark polarity whose two
\* panels differ, each being the run owed to its own element.
C23_Witness ==
    /\ SweepReturned
    /\ op = "adaptive_compare_C"
    /\ args.polarity = "dark"
    /\ Len(args.values) = 2
    /\ result.panels[1].img # result.panels[2].img
    /\ result.panels[1].img = SweepOwed(1)
    /\ result.panels[2].img = SweepOwed(2)

\* C23's case for the window: three windows of which two give different
\* panels.
C23_WitnessWindow ==
    /\ SweepReturned
    /\ op = "adaptive_compare_k"
    /\ Len(args.values) = 3
    /\ result.panels[2].img # result.panels[3].img

\* ------------------------------------------------------------ claims: P-tile levels
\* round(p*N) for the p threshold_ptile works with: the caller's p brought
\* into [0, 1].
PtileTarget ==
    LET q == IF args.p.n < 0 THEN RInt(0)
             ELSE IF args.p.n > args.p.d THEN RInt(1) ELSE args.p
    IN  RoundHalfEven(q.n * Len(Samples), q.d)

C24_WitnessTop ==
    /\ PtileReturned
    /\ Len(Samples) = 4
    /\ args.p = Rat(1, 2)
    /\ CountAtLeast(255) = 0
    /\ CountAtLeast(200) = 2
    /\ thr = RInt(255)
    /\ Foreground = 0

\* ------------------------------------------------------------ claims: Sobel
SobelReturned == pc = "done" /\ op = "segment_edges_sobel"

\* C25: for an image whose samples all have the same intensity, gx and gy
\* are 0 at every sample, so the magnitude field and its normalisation are
\* all zero, _otsu_threshold of that field is 0, and the mask
\* segment_edges_sobel returns is 255 at every sample.
C25_SobelUniform ==
    (SobelReturned /\ Uniform) =>
        LET arr  == image_to_gray_np(image)
            mag2 == sobel_mag2(arr, image.h, image.w)
            zero == [i \in 1..Len(mag2) |-> 0]
        IN  /\ \A r \in 1..image.h, c \in 1..image.w :
                  /\ sobel_gx(arr, image.h, image.w, r, c) = 0
                  /\ sobel_gy(arr, image.h, image.w, r, c) = 0
            /\ mag2 = zero
            /\ otsu_threshold(zero, fp.sobelRoundUp) = 0
            /\ Len(result.bands[1]) = Len(Samples)
            /\ \A i \in 1..Len(Samples) : result.bands[1][i] = 255

\* C25's case: a uniform image of four samples, none of them black, whose
\* mask is all foreground.
C25_Witness ==
    /\ SobelReturned
    /\ Uniform
    /\ Len(Samples) = 4
    /\ image.h = 2
    /\ Samples[1] = 200
    /\ Foreground = 4

\* ------------------------------------------------------------ claims: iterative range
\* threshold_iterative has set T and has not yet returned to its caller.
IterativeHasT ==
    op = "threshold_iterative" /\ pc \in {"iter_loop", "iter_exit", "done"}

\* C26 (as claimed): for a non-empty field, whatever tol and max_iter, the T
\* of threshold_iterative lies in [min(I), max(I)] from its first value on,
\* before and after every pass of the loop; in the mask every sample of the
\* least intensity is background, and a uniform image gives a mask with no
\* foreground.
C26_IterativeInRange ==
    IterativeHasT =>
        \A I \in {Samples} :
            Len(I) > 0 =>
                LET levels == {I[i] : i \in 1..Len(I)}
                    least  == CHOOSE v \in levels : \A u \in levels : v <= u
                    most   == CHOOSE v \in levels : \A u \in levels : u <= v
                IN  /\ RLeq(RInt(least), thr)
                    /\ RLeq(thr, RInt(most))
                    /\ pc = "done" =>
                          \A mask \in {result.bands[1]} :
                              /\ \A i \in 1..Len(I) : I[i] = least => mask[i] = 0
                              /\ least = most => \A i \in 1..Len(I) : mask[i] = 0

\* The part of C26 that holds: on the images whose sum of samples is below
\* 2^24, where arr.mean() adds without rounding, T stays in [min(I), max(I)]
\* and the samples of the least intensity are background.
C26_InRangeWhenSumExact ==
    (image # WhiteStrip) => C26_IterativeInRange

\* C26_InRangeWhenSumExact's case: a call that has returned after two passes
\* of the loop on a field of three different levels, T strictly between the
\* least and the greatest, some sample being foreground.
C26_WitnessSumExact ==
    /\ IterativeHasT
    /\ pc = "done"
    /\ iters = 2
    /\ image # WhiteStrip
    /\ Cardinality({Samples[i] : i \in 1..Len(Samples)}) = 3
    /\ Foreground > 0
    /\ Foreground < Len(Samples)

\* ------------------------------------------------------------ claims: k-means labels
KMeansCompareReturned ==
    pc = "done" /\ op = "kmeans_compare" /\ Len(args.values) > 0

\* Panel i of the grid is an image kmeans_segment can return for the input
\* with exactly the number of clusters its label "k=<n>" names.
LabelTellsClusters(i) ==
    /\ result.labels[i].text.key = "k"
    /\ Returned(result.panels[i].img)
            \in kmeans_segment_outcomes(image, result.labels[i].text.value,
                                        kmeans_default_max_iter)

\* C27 (as claimed): for every list of integers ks, values below 2 included,
\* the label "k=<n>" above each panel of the grid kmeans_compare returns names
\* the number of clusters that panel was computed with.
C27_LabelsTellClusters ==
    KMeansCompareReturned =>
        \A i \in 1..Len(args.values) : LabelTellsClusters(i)

\* The part of C27 that holds: the labels of the values that are at least 2.
C27_LabelsFromTwo ==
    KMeansCompareReturned =>
        \A i \in 1..Len(args.values) : args.values[i] >= 2 => LabelTellsClusters(i)

\* C27_LabelsFromTwo's case: a grid for the list (1, 3) whose second panel,
\* labelled k=3, shows three levels.
C27_WitnessFromTwo ==
    /\ KMeansCompareReturned
    /\ args.values = <<1, 3>>
    /\ result.labels[2].text = Label("k", 3)
    /\ Cardinality({result.panels[2].img.bands[1][j] :
                        j \in 1..Len(result.panels[2].img.bands[1])}) = 3

\* ------------------------------------------------------------ claims: display
\* The images _apply_processing(mode) may hand to the viewer for img.
ModeResults(mode, img) ==
    {o.img : o \in {x \in apply_processing(mode, img) : ~x.raised}}

\* A handler of open-file or of a mode change has just returned.
HandlerReturned == pc = "done"

\* C28 (as claimed): after any sequence of open-file and mode-change events,
\* when the handler returns, the viewer's original image is the loaded one and
\* its processed image is the result of the selected mode on it (None for
\* "None"); with no image loaded the viewer shows none.
C28_DisplayMatchesMode ==
    HandlerReturned =>
        /\ viewer.original_image = image
        /\ image = NoImage => viewer.processed_image = NoImage
        /\ image # NoImage => viewer.processed_image \in ModeResults(processing_mode, image)

\* C28, the part that holds whatever the service does: the viewer's original
\* is the loaded image, and its processed image, if any, was computed from it
\* by some mode.
C28_NeverFromPreviousImage ==
    /\ viewer.original_image = image
    /\ viewer.processed_image # NoImage =>
            /\ image # NoImage
            /\ \E mode \in ProcessingModes : viewer.processed_image \in ModeResults(mode, image)

\* C28 for loaded images of two samples or more, on which no call raises.
C28_MatchesFromTwoSamples ==
    (image # NoImage /\ image.h * image.w >= 2) => C28_DisplayMatchesMode

\* A second image was opened while a mode was selected, and its result shown.
C28_WitnessReopened ==
    /\ pc = "done"
    /\ image = RGBAImage(1, 2, <<<<255, 0, 0, 255>>, <<0, 0, 255, 128>>>>)
    /\ processing_mode = "K-means (k=2)"
    /\ viewer.processed_image # NoImage
    /\ viewer.processed_image.src = image

\* A mode change raised: the viewer keeps the result of the mode before.
C28_WitnessStale ==
    /\ pc = "raised"
    /\ processing_mode = "K-means (k=2)"
    /\ viewer.processed_image = to_grayscale(image)

\* ------------------------------------------------------------ claims: preview
\* C29 (as claimed): _hold_before_active is true only while the space key is
\* held down: after any interleaving of presses, releases and compare-mode
\* changes it is false whenever the last key event was a release, and true
\* only when the last one was a press.
C29_HoldFollowsKey ==
    /\ last_key = "release" => ~viewer.hold_before_active
    /\ viewer.hold_before_active => last_key = "press"

\* The part of C29 that holds: a release that arrives while the compare mode
\* is off or wipe clears the flag, and no event but a press sets it.
C29_ReleaseClearsOutsideTwoUp ==
    [][/\ (last_key' = "release" /\ last_key = "press"
              /\ viewer.compare_mode \in {"off", "wipe"}) => ~viewer'.hold_before_active
       /\ (viewer'.hold_before_active /\ ~viewer.hold_before_active) => last_key' = "press"]_vars

\* The key was pressed with the compare mode off and released in 2-up: the
\* flag stays set, and the right panel goes on showing the original.
C29_WitnessStuck ==
    /\ last_key = "release"
    /\ viewer.hold_before_active
    /\ viewer.compare_mode = "side_by_side"
    /\ viewer.processed_image # NoImage
    /\ ~show_after(viewer)

\* The key was pressed and released with the compare mode off or wipe.
C29_WitnessReleased ==
    /\ last_key = "release"
    /\ ~viewer.hold_before_active
    /\ viewer.compare_mode = "wipe"
    /\ show_after(viewer)

\* ------------------------------------------------------------ claims: zoom
\* The bottom bar's slider and value label show the viewer's zoom percent.
ZoomShown ==
    /\ bottom.zoom_slider = get_zoom_percent(viewer)
    /\ bottom.zoom_value = get_zoom_percent(viewer)

\* 0.1 <= _scale_factor <= 4.0
ScaleInRange ==
    /\ RLeq(Rat(1, 10), viewer.scale_factor)
    /\ RLeq(viewer.scale_factor, RInt(4))

\* C30 (as claimed): after every zoom event (slider change, preset click,
\* Fit, mouse wheel, file open) the bottom bar's slider and value label show
\* the viewer's zoom percent, and the viewer's scale factor is within
\* [0.1, 4.0].
C30_ZoomSynchronised == ZoomShown /\ ScaleInRange

\* A step that is the click of a percent preset.
PresetPercentClicked ==
    \E value \in Presets :
        /\ bottom' = [bottom EXCEPT !.preset_buttons = value]
        /\ viewer' = set_zoom_percent(viewer, value)

\* The part of C30 that holds: the scale factor is always within [0.1, 4.0],
\* and every event that changes the viewer or the bottom bar, the click of a
\* percent preset excepted, leaves the bottom bar showing the viewer's zoom.
C30_SynchronisedButPresets ==
    /\ []ScaleInRange
    /\ [][(<<viewer, bottom>>' # <<viewer, bottom>> /\ ~PresetPercentClicked)
                => (bottom'.zoom_slider = get_zoom_percent(viewer')
                        /\ bottom'.zoom_value = get_zoom_percent(viewer'))]_vars

\* The 25 % preset was clicked: the viewer is at 25 %, the slider and the
\* label still at 100.
C30_WitnessPreset ==
    /\ get_zoom_percent(viewer) = 25
    /\ bottom.preset_buttons = 25
    /\ bottom.zoom_slider = 100
    /\ bottom.zoom_value = 100

\* The wheel was turned up from 100 %: viewer and bottom bar are at 110 %.
C30_WitnessWheel ==
    /\ viewer.scale_factor = Rat(11, 10)
    /\ bottom.zoom_slider = 110
    /\ bottom.zoom_value = 110
====
